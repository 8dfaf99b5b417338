--------------------------------- MODULE Files ---------------------------------
(***************************************************************************)
(* What a file system promises to programs that use files of their own,    *)
(* and delete them while they are open: a file is there from its creation  *)
(* to its deletion and holds what was last saved through a handle on it.   *)
(* A handle is on the file it was opened for; the deletion of that file    *)
(* takes it off, and from then on it may come to be on the next file that  *)
(* is created, never on one that is there.  The abstraction of Rfs         *)
(* (drivers/drvrfs.c).                                                     *)
(***************************************************************************)
EXTENDS Sequences

CONSTANTS
  Client,  \* programs
  Name,    \* names of files
  NoFile   \* no file, nothing open
VARIABLES
  file,    \* per name: the contents, or NoFile
  open,    \* per client: the name of the open file with what a read finds
  on       \* per client: the file that its handle is on, or NoFile

vars == <<file, open, on>>

Init == /\ file = [n \in Name |-> NoFile]
        /\ open = [c \in Client |-> NoFile] /\ on = [c \in Client |-> NoFile]

Create(n) == /\ file[n] = NoFile
             /\ file' = [file EXCEPT ![n] = << >>]
             /\ \E left \in SUBSET {c \in Client : open[c] # NoFile /\ on[c] = NoFile} :
                  on' = [c \in Client |-> IF c \in left THEN n ELSE on[c]]
             /\ UNCHANGED open
Delete(n) == /\ file[n] # NoFile
             /\ file' = [file EXCEPT ![n] = NoFile]
             /\ on' = [c \in Client |-> IF on[c] = n THEN NoFile ELSE on[c]]
             /\ UNCHANGED open
Open(c, n) == /\ open[c] = NoFile /\ file[n] # NoFile
              /\ open' = [open EXCEPT ![c] = <<n, file[n]>>]
              /\ on' = [on EXCEPT ![c] = n]
              /\ UNCHANGED file

(* What the handle has goes to the file that it is on. *)
Save(c, data) == file' = [n \in Name |-> IF on[c] = n THEN data ELSE file[n]]
Write(c) == \E v \in Name :
  /\ open[c] # NoFile
  /\ LET data == Append(open[c][2], v)
     IN  /\ Save(c, data)
         /\ open' = [open EXCEPT ![c] = <<@[1], data>>]
  /\ UNCHANGED on
Close(c) ==
  /\ open[c] # NoFile
  /\ Save(c, open[c][2])
  /\ open' = [open EXCEPT ![c] = NoFile] /\ on' = [on EXCEPT ![c] = NoFile]

Next == \/ \E n \in Name : Create(n) \/ Delete(n) \/ \E c \in Client : Open(c, n)
        \/ \E c \in Client : Write(c) \/ Close(c)

Spec == Init /\ [][Next]_vars
=============================================================================
