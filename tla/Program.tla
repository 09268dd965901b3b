------------------------------- MODULE Program --------------------------------
(***************************************************************************)
(* What a Python program holds of the system and may leave behind: the     *)
(* timers and the window (Timers), the key event transformation (GetKey)   *)
(* and the open files (FdFile). A program does one thing at a time; a file *)
(* is run after pe_reset_micropython(), a line of the shell is not.        *)
(***************************************************************************)
EXTENDS GetKey, FdFile

programVars == <<vars, call, transform, fileVars>>

ProgramInit == Init /\ GetKeyInit /\ FileInit

(* pe_reset_micropython() before a file, then pyexec_repl_execute() *)
StartFile == call = NoCall /\ Start("file") /\ ResetFiles /\ UNCHANGED <<call, transform>>
StartLine == Start("line") /\ UNCHANGED <<call, transform, fileVars>>

(* Imports, windows, and the end of the program *)
ModuleStep ==
    /\ InPython
    /\ ImportTime \/ ImportKandinsky \/ EnableWideScreen \/ DisableWideScreen \/ EndLine \/ EndFile
    /\ UNCHANGED <<call, transform, fileVars>>

CallStep == \E timeout \in Timeouts : GetkeyCall(timeout) /\ UNCHANGED fileVars
WaitStep == GetkeyStep /\ UNCHANGED fileVars
WaitRun == GetkeyRun /\ UNCHANGED fileVars

UseFile == InPython /\ FileStep /\ UNCHANGED <<vars, call, transform>>

ProgramNext == StartFile \/ StartLine \/ ModuleStep \/ CallStep \/ WaitStep \/ UseFile

(* The processor runs on inside getkey(), and a timer that runs sets its   *)
(* flag; nobody need press a key, and the program need not end.            *)
ProgramSpec == ProgramInit /\ [][ProgramNext]_programVars /\ WF_programVars(WaitRun)

==============================================================================
