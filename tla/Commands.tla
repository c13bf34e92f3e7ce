------------------------------ MODULE Commands ------------------------------
(***************************************************************************)
(* What the handlers of internal/api/handlers_device.go and                *)
(* handlers_snapshot.go, and the simple ones of handlers_recording.go, do  *)
(* to a device.  A handler is the set of its scripts, one for each variant *)
(* of the request; a script is the sequence of its commands, all with      *)
(* r.Context().  A command names the setting it writes: settings that one  *)
(* command writes alone are the single setting "value", and a command that *)
(* only reads writes NoSetting.                                            *)
(***************************************************************************)
EXTENDS Naturals, Sequences

NoSetting == "none"

Command(key, ok, bad, temp) == [sets |-> key, ok |-> ok, bad |-> bad, temp |-> temp]

Try(key) == Command(key, "next", "next", "keep")      \* the error is not looked at
Must(key) == Command(key, "next", "fail", "keep")     \* 500
Unless(key) == Command(key, "answer", "next", "keep") \* what follows is the fallback

Tries(keys) == [i \in DOMAIN keys |-> Try(keys[i])]

One == {<<Try("value")>>}
Read == {<<Try(NoSetting)>>}

\* The multipart form is copied to a temporary file, which goes as soon as the
\* command is done, or when the handler returns.
Receive == Command(NoSetting, "next", "fail", "make")
ReceiveDeferred == Command(NoSetting, "next", "fail", "defer")
MustAndRemove(key) == [Must(key) EXCEPT !.temp = "drop"]

-----------------------------------------------------------------------------
(* Settings that take several commands                                     *)

SetGPS == {<<Unless("location"), Try("providers")>>}
SetNetwork == {Tries(<<"wifi", "data">>), Tries(<<"wifi", "data", "speed">>)}
SetBattery ==
  {Tries(level \o charging) : level \in {<<>>, <<"capacity">>},
                              charging \in {<<>>, <<"charger">>, <<"charger", "charger">>}}
SetOrientation == {Tries(<<"autorotate", "rotation">>)}
SetDarkMode == {Tries(<<"uimode", "night">>)}
Shake == {Tries(<<"sensor", "sensor">>)}
LockUnlock == {Tries(<<"lock">>), Tries(<<"lock", "lock">>)}
Animations == {Tries(<<"window", "transition", "animator">>)}
Accessibility == {Tries(<<"services", "accessibility">>)}
Brightness == {Tries(<<"automatic", "brightness">>)}
WifiToggle == {Tries(<<"wifi">>)}
Biometric == {Tries(<<"pin", "finger">> \o [i \in 1..6 |-> NoSetting])} \cup Read
Clipboard == {<<Try(NoSetting), Unless("clipboard"), Try("text")>>}

Volume == One \cup {<<>>}
Sensor == {Tries(<<"sensor">>)}

-----------------------------------------------------------------------------
(* Files and apps                                                          *)

InstallAPK == {<<Receive, MustAndRemove("app")>>, <<Must("app")>>}
CameraInject == {<<Receive, Try(NoSetting), MustAndRemove("file"), Try(NoSetting)>>,
                 <<Try(NoSetting), Must("file"), Try(NoSetting)>>}
UploadFile == {<<ReceiveDeferred, Try(NoSetting), Must("file"), Try(NoSetting)>>,
               <<ReceiveDeferred, Try(NoSetting), Must("file")>>}
PushFile == {<<Must("file")>>}
PullFile == {<<Must(NoSetting)>>}

\* The capture runs on by itself; stopping it kills it, pulls the file and
\* removes it, whatever failed before.
StartHAR == {Tries(<<"dump">>)}
StopHAR == {<<Try("dump"), Try(NoSetting), Try("file")>>}

-----------------------------------------------------------------------------
(* One command                                                             *)

SetLocale == One
SetTimezone == One
FontScale == One
OpenDeeplink == One
Permissions == One
ClearData == One
UninstallApp == One
AudioInject == One
LaunchApp == One
ForceStop == One
PressKey == One
ExecADB == One
PushNotification == {<<Must("value")>>}

GetActivity == Read
GetNotifications == Read
GetClipboard == Read
IsKeyboardShown == Read
GetPackageInfo == Read \cup {<<>>}
GetDeviceInfo == {[i \in 1..10 |-> Try(NoSetting)]}
GetUITree == {<<Must(NoSetting)>>}
GetLogcat == {<<Must(NoSetting)>>}
Screenshot == {<<Must(NoSetting)>>, <<>>}

-----------------------------------------------------------------------------
(* Snapshots: loading one writes every setting                             *)

Restore == {<<Must("all")>>}
Save == {<<Must(NoSetting)>>}
List == {<<Must(NoSetting)>>}
Delete == {<<Must(NoSetting)>>}

-----------------------------------------------------------------------------

Setting == {"value", "location", "providers", "wifi", "data", "speed", "capacity",
            "charger", "autorotate", "rotation", "uimode", "night", "sensor", "lock",
            "window", "transition", "animator", "services", "accessibility",
            "automatic", "brightness", "pin", "finger", "clipboard", "text", "app",
            "file", "dump"}

\* The routes of /api/v1/sessions/{id} that send commands.
Script ==
  UNION {SetGPS, SetNetwork, SetBattery, SetOrientation, SetDarkMode, Shake, Sensor,
         LockUnlock, Animations, Accessibility, Brightness, WifiToggle, Biometric,
         Clipboard, Volume, InstallAPK, CameraInject, UploadFile, PushFile, PullFile,
         StartHAR, StopHAR, SetLocale, SetTimezone, FontScale, OpenDeeplink,
         Permissions, ClearData, UninstallApp, AudioInject, LaunchApp, ForceStop,
         PressKey, ExecADB, PushNotification, GetActivity, GetNotifications,
         GetClipboard, IsKeyboardShown, GetPackageInfo, GetDeviceInfo, GetUITree,
         GetLogcat, Screenshot, Restore, Save, List, Delete}

\* GPSRoute answers at once; a goroutine visits the points.
GPSRoute == {Tries(<<"location", "location">>)}
=============================================================================
