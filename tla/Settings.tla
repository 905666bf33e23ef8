-------------------------------- MODULE Settings --------------------------------
(***************************************************************************)
(* The settings of the PC application, class Library of pc/library.py: the *)
(* folder, the port and the names a user gave to files, saved as a whole.  *)
(* save() writes a temporary file and renames it; any of its steps may     *)
(* fail, and the program may end at any point.  The file system (external) *)
(* truncates a file when it is opened for writing, writes it piecemeal,    *)
(* and renames in one step.                                                *)
(***************************************************************************)
CONSTANTS
    Values,     \* settings as a whole
    Defaults,   \* what Library() starts from, one of Values
    Nothing,    \* no file
    Damaged     \* a file that is not what json.loads() takes

ASSUME SettingsAssumption ==
    /\ Defaults \in Values /\ Nothing \notin Values /\ Damaged \notin Values
    /\ Nothing # Damaged

VARIABLES
    file, temporary,  \* what the two files hold
    library,          \* the attributes of the object
    doing,            \* where save() is
    warned,           \* Library() could not read the file
    saved             \* history: the settings that were saved last

settingsVars == <<file, temporary, library, doing, warned, saved>>

SettingsInit ==
    /\ file = Nothing /\ temporary = Nothing
    /\ library = Defaults
    /\ doing = "idle"
    /\ warned = FALSE
    /\ saved = Defaults

-----------------------------------------------------------------------------

\* Library(): the file, or the defaults.
Loads ==
    /\ library' = IF file \in Values THEN file ELSE Defaults
    /\ warned' = (file = Damaged)

\* Another folder, port or name, and save() begins.
Change(v) ==
    /\ doing = "idle"
    /\ library' = v
    /\ doing' = "opens"
    /\ UNCHANGED <<file, temporary, warned, saved>>

\* A fault of write_text(): it writes the file itself.
OpensFile ==
    /\ doing = "opens"
    /\ doing' = "writes"
    /\ file' = Damaged
    /\ UNCHANGED <<temporary, library, warned, saved>>

\* write_text() opens the temporary file.
Opens ==
    /\ doing = "opens"
    /\ doing' = "writes"
    /\ temporary' = Damaged
    /\ UNCHANGED <<file, library, warned, saved>>

\* It has written all.
Writes ==
    /\ doing = "writes"
    /\ doing' = "replaces"
    /\ temporary' = library
    /\ UNCHANGED <<file, library, warned, saved>>

\* replace().
Replaces ==
    /\ doing = "replaces"
    /\ doing' = "idle"
    /\ file' = temporary
    /\ temporary' = Nothing
    /\ saved' = library
    /\ UNCHANGED <<library, warned>>

\* A step raises OSError: the change stays in memory only.
Fails ==
    /\ doing # "idle"
    /\ doing' = "idle"
    /\ UNCHANGED <<file, temporary, library, warned, saved>>

\* The program ends and is started again.
Restarts ==
    /\ doing' = "idle"
    /\ Loads
    /\ UNCHANGED <<file, temporary, saved>>

SettingsNext ==
    \/ \E v \in Values : Change(v)
    \/ Opens
    \/ Writes
    \/ Replaces
    \/ Fails
    \/ Restarts

SettingsSpec == SettingsInit /\ [][SettingsNext]_settingsVars

-----------------------------------------------------------------------------

\* Wherever a save fails or the program ends, the next start finds the settings of
\* the last save that was completed, whole, and never warns of a file that it
\* damaged itself (library.py:37-41).
SettingsSurvive ==
    /\ file = saved \/ (file = Nothing /\ saved = Defaults)
    /\ ~warned
    /\ doing = "replaces" => temporary = library
=============================================================================
