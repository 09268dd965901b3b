-------------------------------- MODULE FdFile --------------------------------
(***************************************************************************)
(* File objects (ports/sh/fileio/file.c) over the descriptors of the C     *)
(* library, with the standard streams that main() connects to the console. *)
(* The descriptor table is external: open() gives out any free descriptor, *)
(* or fails. An object that is not closed has no finaliser: its descriptor *)
(* stays open when the collector, or the reset of the interpreter, drops   *)
(* the object.                                                             *)
(***************************************************************************)
EXTENDS Integers

CONSTANTS
    MaxFd,          \* size of the descriptor table
    Names,          \* names of files
    Objects         \* bound on the file objects that are in use at once

ASSUME FdFileAssumption ==
    /\ MaxFd \in Nat /\ MaxFd > 2
    /\ Names \cap {"input", "console", "closed", "number"} = {}

VARIABLES
    table,          \* what each descriptor stands for
    objs,           \* object -> its fd (-1 if closed) and the name it was opened with
    numbered        \* a program has made an object from a number, or closed a stream

fileVars == <<table, objs, numbered>>

Fds == 0..MaxFd - 1
STDIN_FILENO == 0
STDOUT_FILENO == 1
STDERR_FILENO == 2
NoObject == [fd |-> -1, name |-> "none"]

(* open_generic() in main() *)
FileInit ==
    /\ table = [fd \in Fds |-> IF fd = STDIN_FILENO THEN "input"
                               ELSE IF fd \in {STDOUT_FILENO, STDERR_FILENO} THEN "console"
                               ELSE "closed"]
    /\ objs = [o \in Objects |-> NoObject]
    /\ numbered = FALSE

(* fdfile_open() of a name: the object is allocated first, so that nothing *)
(* can fail once the file is open.                                         *)
fdfile_open(o, name) ==
    /\ objs[o] = NoObject
    /\ \E fd \in {n \in Fds : table[n] = "closed"} :
         /\ table' = [table EXCEPT ![fd] = name]
         /\ objs' = [objs EXCEPT ![o] = [fd |-> fd, name |-> name]]
    /\ UNCHANGED numbered

(* fdfile_open() of a small integer: any number will do *)
fdfile_open_number(o, n) ==
    /\ objs[o] = NoObject
    /\ objs' = [objs EXCEPT ![o] = [fd |-> n, name |-> "number"]]
    /\ numbered' = TRUE
    /\ UNCHANGED table

mut_fdfile_close(o) ==
    /\ objs[o] # NoObject
    /\ table' = [fd \in Fds |-> IF fd = objs[o].fd THEN "closed" ELSE table[fd]]
    /\ UNCHANGED <<objs, numbered>>

(* fdfile_close(), fdfile___exit__(): closing twice closes -1, which fails *)
fdfile_close(o) ==
    /\ objs[o] # NoObject
    /\ table' = [fd \in Fds |-> IF fd = objs[o].fd THEN "closed" ELSE table[fd]]
    /\ objs' = [objs EXCEPT ![o].fd = -1]
    /\ UNCHANGED numbered

(* The same on sys.stdin, sys.stdout and sys.stderr, which are constant *)
close_stream(fd) ==
    /\ table' = [table EXCEPT ![fd] = "closed"]
    /\ numbered' = TRUE
    /\ UNCHANGED objs

(* What fdfile_read(), fdfile_write() and fdfile_ioctl() reach; before it, *)
(* check_fd_is_open() raises an exception if the object is closed.         *)
Reached(o) == IF objs[o].fd \in Fds THEN table[objs[o].fd] ELSE "closed"

(* mp_hal_stdout_tx_strn(), for print() *)
Printed == table[STDOUT_FILENO]

(* The program drops its last pointer to an object. *)
DropFile(o) ==
    /\ objs[o] # NoObject
    /\ objs' = [objs EXCEPT ![o] = NoObject]
    /\ UNCHANGED <<table, numbered>>

(* What pe_reset_micropython() does to files: it forgets them. *)
ResetFiles ==
    /\ objs' = [o \in Objects |-> NoObject]
    /\ UNCHANGED <<table, numbered>>

(* Bound: once a program has gone behind the objects' back nothing is      *)
(* claimed about files any more, and their later steps are left out.       *)
FileStep ==
    /\ ~numbered
    /\ \/ \E o \in Objects :
            \/ \E name \in Names : fdfile_open(o, name)
            \/ \E n \in -1..MaxFd : fdfile_open_number(o, n)
            \/ fdfile_close(o) \/ DropFile(o)
       \/ \E fd \in {STDIN_FILENO, STDOUT_FILENO, STDERR_FILENO} : close_stream(fd)

-----------------------------------------------------------------------------

(* A file object accesses the file it was opened with and print() reaches  *)
(* the console, in this program and in all later ones, whatever was opened,*)
(* closed twice, dropped or left open, as long as no program goes behind   *)
(* the objects' back with open(number) or closes a standard stream.        *)
AccessesOwnFile ==
    ~numbered =>
        /\ Printed = "console"
        /\ \A o \in Objects : objs[o].fd >= 0 => Reached(o) = objs[o].name
==============================================================================
