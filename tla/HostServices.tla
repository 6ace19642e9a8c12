------------------------------ MODULE HostServices ------------------------------
(***************************************************************************)
(* HostServices of src/platform.cpp: the files and terminals that device   *)
(* factories open.  Its state is a record:                                 *)
(*                                                                         *)
(*   files      the files it owns, by path; a descriptor is a position,    *)
(*              and 0 the borrowed standard stream                         *)
(*   terminals  the terminals it switched: descriptor, tty and the mode    *)
(*              tcgetattr gave                                             *)
(*   mode       the mode of every tty of the host                          *)
(*   truncated  the files opened for writing                               *)
(***************************************************************************)
EXTENDS Integers, Sequences

CONSTANTS
  Tty,     \* the terminals of the host
  TtyOf    \* the tty behind a path; a path outside its domain is no terminal

HostInit == [files |-> <<>>, terminals |-> <<>>, mode |-> [t \in Tty |-> "cooked"],
             truncated |-> {}]

(* fopen, or the standard stream.                                          *)
Opened(host, path, input) ==
  IF path = "-" THEN host
  ELSE [host EXCEPT !.files = Append(@, path),
                    !.truncated = IF input THEN @ ELSE @ \cup {path}]

Descriptor(host, path) == IF path = "-" THEN 0 ELSE Len(host.files) + 1

(* Another device has this descriptor in raw mode already.  Mutant: each   *)
(* open saves the mode it finds.                                           *)
GuardedNever(host, fd) == FALSE
Guarded(host, fd) == \E k \in DOMAIN host.terminals : host.terminals[k].descriptor = fd

(* The terminal of an input becomes raw.  `set' says whether tcsetattr     *)
(* succeeds; if not, the saved entry is dropped again.                     *)
MadeRaw(host, path, fd, set) ==
  IF set /\ path \in DOMAIN TtyOf /\ ~Guarded(host, fd)
  THEN LET tty == TtyOf[path]
       IN  [host EXCEPT !.terminals = Append(@, [descriptor |-> fd, tty |-> tty,
                                                 original |-> host.mode[tty]]),
                        !.mode[tty] = "raw"]
  ELSE host

open_input(host, path, set) ==
  MadeRaw(Opened(host, path, TRUE), path, Descriptor(host, path), set)

open_output(host, path) == Opened(host, path, FALSE)

(* ~State: the modes are restored in the order of the switches, and then   *)
(* the files are closed.                                                   *)
Restored(host) ==
  LET last(t) == {k \in DOMAIN host.terminals :
                    /\ host.terminals[k].tty = t
                    /\ \A l \in k + 1 .. Len(host.terminals) : host.terminals[l].tty # t}
  IN  [host EXCEPT !.terminals = <<>>, !.files = <<>>,
                   !.mode = [t \in Tty |->
                     IF last(t) = {} THEN @[t]
                     ELSE host.terminals[CHOOSE k \in last(t) : TRUE].original]]
=============================================================================
