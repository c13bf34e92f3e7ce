----------------------------- MODULE NodesFile ------------------------------
(***************************************************************************)
(* The registry and its file nodes.yaml (internal/registry/registry.go):   *)
(* an operation changes the registry in memory under r.mu and then, not    *)
(* under it, writes it to nodes.yaml.tmp and renames that.                 *)
(*                                                                         *)
(* Memory and files hold whole registries, standalone (Empty) or with some *)
(* contents (Value); a file may also be truncated (Blank, which parses as  *)
(* Empty) or a mixture of two writes (Torn).  Files are inodes, since a    *)
(* process that has opened the temporary file goes on writing to it after  *)
(* another has renamed it.  A step is a critical section or a system call. *)
(***************************************************************************)
EXTENDS Integers

CONSTANTS
  Proc,     \* requests that change the registry
  Value,    \* what a registry with a group may be
  Empty, Blank, Torn, NoFile,
  MaxCrash  \* bound on the crashes of the daemon

ASSUME NodesFileAssumption ==
  /\ {Empty, Blank, Torn, NoFile, "down", "nil"} \cap Value = {}
  /\ Empty \notin {Torn, "down", "nil"} /\ NoFile \notin Proc
  /\ MaxCrash \in Nat

VARIABLES
  mem,      \* r.file; "down" while the daemon is not running, "nil" when New
            \* gave none
  pc,       \* what each request does next
  data,     \* its marshalled registry
  fd,       \* the inode it writes
  content,  \* of each inode; one per request is enough
  disk,     \* the inode of nodes.yaml
  tmp,      \* the inode of nodes.yaml.tmp
  last,     \* the registry as of the last request that changed it
  acked,    \* and as of the last that was answered without an error
  answer,   \* "ok" or "error", of the last request
  alone,    \* so far, requests have come one after the other
  crashes

files == <<content, disk, tmp>>
fileVars == <<mem, pc, data, fd, files, last, acked, answer, alone, crashes>>

Registry == Value \cup {Empty}

FileInit ==
  /\ mem = Empty
  /\ pc = [p \in Proc |-> "idle"]
  /\ data = [p \in Proc |-> Empty]
  /\ fd = [p \in Proc |-> NoFile]
  /\ content = [p \in Proc |-> Blank]
  /\ disk = NoFile
  /\ tmp = NoFile
  /\ last = Empty
  /\ acked = Empty
  /\ answer = "ok"
  /\ alone = TRUE
  /\ crashes = 0

Step(p, from, to) == pc[p] = from /\ pc' = [pc EXCEPT ![p] = to]
Succeed == answer' = "ok" /\ acked' = mem
Fail == answer' = "error" /\ UNCHANGED acked
Active == {p \in Proc : pc[p] \notin {"idle", "done", "failed"}}

Begin(p, to) ==
  /\ mem \in Registry
  /\ alone' = (alone /\ Active = {})
  /\ Step(p, "idle", to)

\* CreateGroup, AddNode, RemoveNode and ImportFromJSON up to save.
Change(p) ==
  /\ Begin(p, "marshal")
  /\ mem' \in Value /\ last' = mem'
  /\ UNCHANGED <<data, fd, files, acked, answer, crashes>>

\* save: the registry as it is by now ...
Marshal(p) ==
  /\ Step(p, "marshal", "open")
  /\ data' = [data EXCEPT ![p] = mem]
  /\ UNCHANGED <<mem, fd, files, last, acked, answer, crashes, alone>>

\* ... WriteFile opens the temporary file and truncates it ...
Open(p) ==
  /\ Step(p, "open", "write")
  /\ LET i == IF tmp = NoFile THEN p ELSE tmp IN
       /\ tmp' = i
       /\ fd' = [fd EXCEPT ![p] = i]
       /\ content' = [content EXCEPT ![i] = Blank]
  /\ UNCHANGED <<mem, data, disk, last, acked, answer, crashes, alone>>

\* ... unless it, or the directory before it, cannot be made: an error, with
\* memory changed ...
OpenFails(p) ==
  /\ Step(p, "marshal", "failed") \/ Step(p, "open", "failed")
  /\ Fail
  /\ UNCHANGED <<mem, data, fd, files, last, crashes, alone>>

\* ... and writes it, from its beginning; what another process has written since
\* may stick out at the end ...
Write(p) ==
  /\ Step(p, "write", "rename")
  /\ \E c \in {data[p]} \cup (IF content[fd[p]] = Blank THEN {} ELSE {Torn}) :
       content' = [content EXCEPT ![fd[p]] = c]
  /\ UNCHANGED <<mem, data, fd, disk, tmp, last, acked, answer, crashes, alone>>

\* ... or fails at some byte: an error, and the temporary file stays ...
WriteFails(p) ==
  /\ Step(p, "write", "failed")
  /\ \E c \in {content[fd[p]], data[p], Torn} : content' = [content EXCEPT ![fd[p]] = c]
  /\ Fail
  /\ UNCHANGED <<mem, data, fd, disk, tmp, last, crashes, alone>>

\* ... then whatever has the temporary name by now gets the other.
Rename(p) ==
  /\ tmp # NoFile /\ Step(p, "rename", "done")
  /\ disk' = tmp /\ tmp' = NoFile
  /\ Succeed
  /\ UNCHANGED <<mem, data, fd, content, last, crashes, alone>>

\* That nothing has it is not the only reason to fail.
RenameFails(p) ==
  /\ Step(p, "rename", "unlink")
  /\ UNCHANGED <<mem, data, fd, files, last, acked, answer, crashes, alone>>

\* Mutant of Unlink: the error of Rename is not returned.
UnlinkQuietly(p) ==
  /\ Step(p, "unlink", "done")
  /\ tmp' \in {NoFile, tmp}
  /\ Succeed
  /\ UNCHANGED <<mem, data, fd, content, disk, last, crashes, alone>>

\* The temporary name is removed then, if it can be, whoever's it is.
Unlink(p) ==
  /\ Step(p, "unlink", "failed")
  /\ tmp' \in {NoFile, tmp}
  /\ Fail
  /\ UNCHANGED <<mem, data, fd, content, disk, last, crashes, alone>>

\* LeaveGroup wipes the registry ...
Leave(p) ==
  /\ Begin(p, "delete")
  /\ mem' = Empty /\ last' = Empty
  /\ UNCHANGED <<data, fd, files, acked, answer, crashes>>

\* Mutant of Delete: the file stays.
DeleteForgets(p) ==
  /\ Step(p, "delete", "done")
  /\ Succeed
  /\ UNCHANGED <<mem, data, fd, files, last, crashes, alone>>

\* ... and deletes the file ...
Delete(p) ==
  /\ Step(p, "delete", "done")
  /\ disk' = NoFile
  /\ Succeed
  /\ UNCHANGED <<mem, data, fd, content, tmp, last, crashes, alone>>

\* ... unless the system refuses: an error, with memory wiped.
DeleteFails(p) ==
  /\ disk # NoFile /\ Step(p, "delete", "failed")
  /\ Fail
  /\ UNCHANGED <<mem, data, fd, files, last, crashes, alone>>

\* The daemon is killed; the files stay.
Crash ==
  /\ mem # "down" /\ crashes < MaxCrash
  /\ mem' = "down" /\ crashes' = crashes + 1
  /\ pc' = [p \in Proc |-> IF pc[p] = "idle" THEN "idle" ELSE "done"]
  /\ UNCHANGED <<data, fd, files, last, acked, answer, alone>>

\* What load finds.
OnDisk == IF disk = NoFile \/ content[disk] = Blank THEN Empty ELSE content[disk]

\* New; start.go calls it a second time when it fails, with the same result.
Restart ==
  /\ mem = "down"
  /\ mem' = IF OnDisk = Torn THEN "nil" ELSE OnDisk
  /\ last' = OnDisk /\ acked' = OnDisk /\ answer' = "ok"
  /\ UNCHANGED <<pc, data, fd, files, crashes, alone>>

FileNext ==
  \/ \E p \in Proc :
       \/ Change(p) \/ Marshal(p) \/ Open(p) \/ OpenFails(p)
       \/ Write(p) \/ WriteFails(p)
       \/ Rename(p) \/ RenameFails(p) \/ Unlink(p)
       \/ Leave(p) \/ Delete(p) \/ DeleteFails(p)
  \/ Crash \/ Restart

FileSpec == FileInit /\ [][FileNext]_fileVars

-----------------------------------------------------------------------------
(* Properties *)

\* What memory and files hold; one file has at most one of the two names.
FileTypeOK ==
  /\ mem \in Registry \cup {"down", "nil"}
  /\ pc \in [Proc -> {"idle", "marshal", "open", "write", "rename", "unlink",
                      "delete", "done", "failed"}]
  /\ data \in [Proc -> Registry]
  /\ fd \in [Proc -> Proc \cup {NoFile}]
  /\ content \in [Proc -> Registry \cup {Blank, Torn}]
  /\ {disk, tmp} \subseteq Proc \cup {NoFile}
  /\ disk = tmp => disk = NoFile
  /\ {last, acked} \subseteq Registry \cup {Torn}
  /\ answer \in {"ok", "error"} /\ alone \in BOOLEAN /\ crashes \in 0..MaxCrash

\* "save writes the file atomically (tmp + rename) so a crash mid-write doesn't
\* corrupt the registry": nodes.yaml, when it exists, is a whole registry.
FileWhole == disk # NoFile => content[disk] \in Registry

\* It is, unless requests overlap.
WholeWhenAlone == alone => FileWhole

\* Overlapping saves may mix two registries or leave an empty one, but then one of
\* the requests gets an error.
DamageReported ==
  crashes = 0 /\ Active = {} /\ (\A p \in Proc : pc[p] # "failed") => FileWhole

\* Unless requests overlap, a restart at any moment finds what the last request
\* answered without an error left, or what the one under way, or the one that
\* failed, was about to leave.
SavesAtomic == alone => OnDisk \in {acked, last}

\* "An in-memory, file-backed list of nodes": with no request under way the file
\* says what memory says; or, if the last request got an error, which leaves memory
\* changed, what the last one without an error left.
FileUpToDate ==
  mem \in Registry /\ Active = {} => OnDisk = IF answer = "ok" THEN mem ELSE acked

\* It does, unless requests overlap.
UpToDateWhenAlone == alone => FileUpToDate

\* Memory and file agree whatever the requests were told; not so after an error,
\* until the next request that can be saved.
MemoryOnDisk == alone /\ mem \in Registry /\ Active = {} => OnDisk = mem

\* "Delete file - empty state means standalone": who has left stays out, over a
\* restart as well.
StaysOut == mem = Empty /\ Active = {} => OnDisk = Empty

\* "registry: load failed, starting standalone": the daemon always has a registry.
HasRegistry == mem # "nil"
=============================================================================
