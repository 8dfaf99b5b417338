---------------------------------- MODULE Rfs ----------------------------------
(***************************************************************************)
(* The RAM file system of Cosmos, drivers/drvrfs.c, as the services        *)
(* kernel/krlsve*.c call it.                                               *)
(*                                                                         *)
(* A device of blocks has a bitmap of the blocks in use, a root directory  *)
(* and one block per file.  Every function copies the block it needs into  *)
(* a buffer, works on the buffer, and copies it back, also when it only    *)
(* looked.  The driver takes no lock and runs with interrupts on: between  *)
(* the two copies any other thread may do the same.  Serial says that it   *)
(* does not; the kernel does not ensure this.                              *)
(*                                                                         *)
(* A step is one copy of a block with what is done to the buffer.  A       *)
(* buffer is had from the heap (new_buf) and may be refused; where that    *)
(* leaves an operation before it has changed anything, it is no action.    *)
(***************************************************************************)
EXTENDS Naturals, Sequences

CONSTANTS
  Client,   \* threads with at most one open file each
  Name,     \* names of files
  Block,    \* numbers of the blocks behind super block, bitmap and directory
  NULL,     \* no block, no file, an entry that was deleted
  DirMax,   \* entries that fit into the directory
  FileMax,  \* writes that fit into a file
  Serial    \* one client at a time is inside the driver

Entry  == [rdr_name : Name, rdr_blknr : Block]
Buffer == [fname : Name, fmd_sfblk : Block, data : Seq(Name)]

ASSUME RfsAssumption ==
  /\ NULL \notin Name \cup Block /\ NULL \notin Entry
  /\ NULL \notin Seq(Name) /\ NULL \notin Buffer /\ NULL \notin Name \X Seq(Name)
  /\ Block \subseteq Nat
  /\ DirMax \in Nat /\ FileMax \in Nat
  /\ Serial \in BOOLEAN

VARIABLES
  dir,     \* the root directory: its entries up to fmd_curfinwbkoff
  bitmap,  \* the blocks in use
  blk,     \* per block: what was written to the file, NULL before its first use
  pc,      \* per client: where it is in the driver
  fname,   \* per client: the name it works on
  dirbuf,  \* per client: its copy of the directory
  bmpbuf,  \* per client: its copy of the bitmap
  fblk,    \* per client: the block it works on
  finode,  \* per client: on_finode, its copy of the block of the open file
  made,    \* history, per client: the files that it created and has not deleted
  lost,    \* history: the blocks that failed creations took and did not give back
  died     \* the clients that are in the endless loop of hal_sysdie

disk  == <<dir, bitmap, blk>>
local == <<fname, dirbuf, bmpbuf, fblk>>
hist  == <<made, lost>>
vars  == <<disk, pc, local, finode, hist, died>>

Pcs == {"out", "new_chk", "new_blk", "new_bmp", "new_dir", "new_file", "new_put",
        "del_blk", "del_bmp", "del_put", "op_blk", "op_put"}

(* rfs_fmat: the blocks behind the root directory are free.                *)
Init ==
  /\ dir = << >> /\ bitmap = {} /\ blk = [b \in Block |-> NULL]
  /\ pc = [c \in Client |-> "out"]
  /\ fname = [c \in Client |-> NULL]
  /\ dirbuf = [c \in Client |-> << >>] /\ bmpbuf = [c \in Client |-> {}]
  /\ fblk = [c \in Client |-> NULL]
  /\ finode = [c \in Client |-> NULL]
  /\ made = [c \in Client |-> {}] /\ lost = {}
  /\ died = {}

(* The entries of a directory for a name; the code takes the first. *)
Found(q, n) == {i \in DOMAIN q : q[i] # NULL /\ q[i].rdr_name = n}
First(S)    == {i \in S : \A j \in S : i <= j}

Enter(c) == c \notin died /\ pc[c] = "out" /\ (Serial => \A o \in Client : pc[o] = "out")
(* Clients leave each other's files alone. *)
Own(c, n) == \A o \in Client \ {c} : n \notin made[o] /\ n # fname[o]

At(c, l) == c \notin died /\ pc[c] = l
Goto(c, l) == pc' = [pc EXCEPT ![c] = l]
(* The client leaves the driver; its buffers are deleted. *)
Leave(c) ==
  /\ Goto(c, "out")
  /\ fname' = [fname EXCEPT ![c] = NULL] /\ fblk' = [fblk EXCEPT ![c] = NULL]
  /\ dirbuf' = [dirbuf EXCEPT ![c] = << >>] /\ bmpbuf' = [bmpbuf EXCEPT ![c] = {}]

(* get_rootdirfile_blk, del_rootdirfile_blk, get_bitmapblk                 *)
GetDir(c) == dirbuf' = [dirbuf EXCEPT ![c] = dir]
PutDir(c) == dir' = dirbuf[c]
GetBitmap(c) == bmpbuf' = [bmpbuf EXCEPT ![c] = bitmap]

(* hal_sysdie: the thread stays where it is, the others go on. *)
Die(c) == died' = died \cup {c} /\ UNCHANGED <<disk, pc, local, finode, hist>>

-----------------------------------------------------------------------------
(* rfs_new_file                                                            *)

NewFile(c, n) ==
  /\ Enter(c) /\ Own(c, n)
  /\ fname' = [fname EXCEPT ![c] = n]
  /\ GetDir(c) /\ Goto(c, "new_chk")
  /\ UNCHANGED <<disk, bmpbuf, fblk, finode, hist, died>>

(* rfs_chkfileisindev: an error if there is a file of that name. *)
NewChk(c) ==
  /\ At(c, "new_chk")
  /\ PutDir(c)
  /\ \/ /\ Found(dirbuf[c], fname[c]) # {}
        /\ Leave(c)
     \/ /\ Found(dirbuf[c], fname[c]) = {}
        /\ Goto(c, "new_blk")
        /\ UNCHANGED local
  /\ UNCHANGED <<bitmap, blk, finode, hist, died>>

(* The buffer for the file and rfs_new_blk *)
NewBlk(c) ==
  /\ At(c, "new_blk")
  /\ GetBitmap(c) /\ Goto(c, "new_bmp")
  /\ UNCHANGED <<disk, fname, dirbuf, fblk, finode, hist, died>>
NewBlkNoMem(c) ==
  /\ At(c, "new_blk")
  /\ Leave(c)
  /\ UNCHANGED <<disk, finode, hist, died>>
MarkedNot(buf, b) == buf \* the bit is not set
Marked(buf, b) == buf \cup {b}
NewBmp(c) ==
  /\ At(c, "new_bmp")
  /\ \/ /\ Block \subseteq bmpbuf[c] \* no block is left
        /\ bitmap' = bmpbuf[c]
        /\ Leave(c)
     \/ \E b \in First(Block \ bmpbuf[c]) :
          /\ bitmap' = Marked(bmpbuf[c], b)
          /\ fblk' = [fblk EXCEPT ![c] = b]
          /\ Goto(c, "new_dir")
          /\ UNCHANGED <<fname, dirbuf, bmpbuf>>
  /\ UNCHANGED <<dir, blk, finode, hist, died>>

(* del_bitmapblk needs a buffer for the superblock to write the bitmap.    *)
NewBmpNoMem(c) == At(c, "new_bmp") /\ Die(c)

(* rfs_new_dirfileblk.  The block is not given back when there is no       *)
(* buffer for the directory and when the directory is full.  Writing the   *)
(* block cannot fail, as the bitmap has no free block behind the device.   *)
Lose(c) == lost' = lost \cup {fblk[c]} /\ UNCHANGED made
NewDirNoMem(c) ==
  /\ At(c, "new_dir")
  /\ Lose(c) /\ Leave(c)
  /\ UNCHANGED <<disk, finode, died>>
NewDir(c) ==
  /\ At(c, "new_dir")
  /\ GetDir(c) /\ Goto(c, "new_file")
  /\ UNCHANGED <<disk, fname, bmpbuf, fblk, finode, hist, died>>
DirFullLate(q) == Len(q) > DirMax \* > for >= in the test of the end of the block
DirFull(q) == Len(q) = DirMax
FileHeaderOld(b) == IF blk[b] = NULL THEN << >> ELSE blk[b] \* the block as it was
FileHeader(b) == << >> \* an empty file
NewFileBlk(c) ==
  /\ At(c, "new_file")
  /\ \/ /\ DirFull(dirbuf[c])
        /\ PutDir(c) /\ Lose(c) /\ Leave(c)
        /\ UNCHANGED blk
     \/ /\ ~DirFull(dirbuf[c])
        /\ blk' = [blk EXCEPT ![fblk[c]] = FileHeader(fblk[c])]
        /\ Goto(c, "new_put")
        /\ UNCHANGED <<dir, local, hist>>
  /\ UNCHANGED <<bitmap, finode, died>>
NewPut(c) ==
  /\ At(c, "new_put")
  /\ dir' = Append(dirbuf[c], [rdr_name |-> fname[c], rdr_blknr |-> fblk[c]])
  /\ made' = [made EXCEPT ![c] = @ \cup {fname[c]}]
  /\ Leave(c)
  /\ UNCHANGED <<bitmap, blk, finode, lost, died>>

-----------------------------------------------------------------------------
(* rfs_del_file.  krlsve_core_ioctrl deletes the file behind a handle, so   *)
(* while the client has it open; test_fsys closes it first.                *)

DelFile(c, n) ==
  /\ Enter(c) /\ Own(c, n)
  /\ fname' = [fname EXCEPT ![c] = n]
  /\ GetDir(c) /\ Goto(c, "del_blk")
  /\ UNCHANGED <<disk, bmpbuf, fblk, finode, hist, died>>
(* del_dirfileblk_core; an error if the file is not found *)
DelBlk(c) ==
  /\ At(c, "del_blk")
  /\ \/ /\ Found(dirbuf[c], fname[c]) = {}
        /\ PutDir(c) /\ Leave(c)
     \/ /\ Found(dirbuf[c], fname[c]) # {}
        /\ GetBitmap(c) /\ Goto(c, "del_bmp")
        /\ UNCHANGED <<dir, fname, dirbuf, fblk>>
  /\ UNCHANGED <<bitmap, blk, finode, hist, died>>
(* rfs_del_blk *)
DelBmp(c) ==
  /\ At(c, "del_bmp")
  /\ \E i \in First(Found(dirbuf[c], fname[c])) :
       bitmap' = bmpbuf[c] \ {dirbuf[c][i].rdr_blknr}
  /\ Goto(c, "del_put")
  /\ UNCHANGED <<dir, blk, local, finode, hist, died>>
DelNoMem(c) ==
  /\ \/ At(c, "del_blk") /\ Found(dirbuf[c], fname[c]) # {}
     \/ At(c, "del_bmp")
  /\ Die(c)
WithoutFile(q, n) == [i \in DOMAIN q |-> IF i \in First(Found(q, n)) THEN NULL ELSE q[i]]
DelPut(c) ==
  /\ At(c, "del_put")
  /\ dir' = WithoutFile(dirbuf[c], fname[c])
  /\ made' = [made EXCEPT ![c] = @ \ {fname[c]}]
  /\ Leave(c)
  /\ UNCHANGED <<bitmap, blk, finode, lost, died>>

-----------------------------------------------------------------------------
(* rfs_open_file, rfs_write_file, rfs_close_file                           *)

OpenFile(c, n) ==
  /\ Enter(c) /\ Own(c, n) /\ finode[c] = NULL
  /\ fname' = [fname EXCEPT ![c] = n]
  /\ GetDir(c) /\ Goto(c, "op_blk")
  /\ UNCHANGED <<disk, bmpbuf, fblk, finode, hist, died>>
OpenNoMem(c, n) == Enter(c) /\ Own(c, n) /\ finode[c] = NULL /\ Die(c)
(* rfs_openfileblk *)
OpBlk(c) ==
  /\ At(c, "op_blk")
  /\ \/ \E i \in First(Found(dirbuf[c], fname[c])) :
          LET b == dirbuf[c][i].rdr_blknr
          IN  finode' = [finode EXCEPT ![c] = [fname |-> fname[c], fmd_sfblk |-> b, data |-> blk[b]]]
     \/ UNCHANGED finode \* not found, or no buffer for its block
  /\ Goto(c, "op_put")
  /\ UNCHANGED <<disk, local, hist, died>>
(* krlsve_core_open calls hal_sysdie when a file cannot be opened. *)
OpPut(c) ==
  /\ At(c, "op_put")
  /\ PutDir(c)
  /\ died' = IF finode[c] = NULL THEN died \cup {c} ELSE died
  /\ Leave(c)
  /\ UNCHANGED <<bitmap, blk, finode, hist>>

(* rfs_writefileblk: the buffer and the block.  What is written to a file  *)
(* is its name, so that one can tell where data belong.                    *)
WriteFile(c) ==
  /\ Enter(c) /\ finode[c] # NULL /\ Len(finode[c].data) < FileMax
  /\ LET data == Append(finode[c].data, finode[c].fname)
     IN  /\ finode' = [finode EXCEPT ![c].data = data]
         /\ blk' = [blk EXCEPT ![finode[c].fmd_sfblk] = data]
  /\ UNCHANGED <<dir, bitmap, pc, local, hist, died>>

(* rfs_closefileblk writes the buffer back and deletes it. *)
CloseFile(c) ==
  /\ Enter(c) /\ finode[c] # NULL
  /\ blk' = [blk EXCEPT ![finode[c].fmd_sfblk] = finode[c].data]
  /\ finode' = [finode EXCEPT ![c] = NULL]
  /\ UNCHANGED <<dir, bitmap, pc, local, hist, died>>

-----------------------------------------------------------------------------
Next ==
  \E c \in Client :
    \/ \E n \in Name : NewFile(c, n) \/ DelFile(c, n) \/ OpenFile(c, n) \/ OpenNoMem(c, n)
    \/ NewChk(c) \/ NewBlk(c) \/ NewBmp(c) \/ NewDir(c) \/ NewFileBlk(c) \/ NewPut(c)
    \/ NewBlkNoMem(c) \/ NewBmpNoMem(c) \/ NewDirNoMem(c) \/ DelNoMem(c)
    \/ DelBlk(c) \/ DelBmp(c) \/ DelPut(c)
    \/ OpBlk(c) \/ OpPut(c)
    \/ WriteFile(c) \/ CloseFile(c)

Spec == Init /\ [][Next]_vars

-----------------------------------------------------------------------------
TypeOK ==
  /\ dir \in Seq(Entry \cup {NULL}) /\ Len(dir) <= DirMax
  /\ bitmap \subseteq Block
  /\ blk \in [Block -> Seq(Name) \cup {NULL}]
  /\ pc \in [Client -> Pcs]
  /\ fname \in [Client -> Name \cup {NULL}]
  /\ dirbuf \in [Client -> Seq(Entry \cup {NULL})]
  /\ bmpbuf \in [Client -> SUBSET Block]
  /\ fblk \in [Client -> Block \cup {NULL}]
  /\ finode \in [Client -> Buffer \cup {NULL}]
  /\ made \in [Client -> SUBSET Name] /\ lost \subseteq Block
  /\ died \subseteq Client

Live  == {i \in DOMAIN dir : dir[i] # NULL}
Taken == {fblk[c] : c \in {o \in Client : pc[o] \in {"new_dir", "new_file", "new_put"}}}
Given == {dir[i].rdr_blknr : i \in {j \in Live : \E c \in Client : pc[c] = "del_put" /\ fname[c] = dir[j].rdr_name}}

(* Bitmap and directory, written back at different times, agree: no two    *)
(* files have one name or one block, and the blocks in use are those of    *)
(* the files, except for the one of a creation or a deletion under way,    *)
(* and those that failed creations kept: of a creation that finds the      *)
(* directory full or no memory for its copy.  Nothing else loses a block,  *)
(* and none that is lost is a file's.                                      *)
DirMatchesBitmap ==
  /\ \A i, j \in Live : i # j => /\ dir[i].rdr_name # dir[j].rdr_name
                                 /\ dir[i].rdr_blknr # dir[j].rdr_blknr
  /\ LET used == ({dir[i].rdr_blknr : i \in Live} \ Given) \cup Taken
     IN  bitmap = used \cup lost /\ used \cap lost = {}

(* A file that was created and not deleted is in the directory, so that    *)
(* opening it does not end in the hal_sysdie of krlsve_core_open.          *)
CreatedIsThere == \A c \in Client : \A n \in made[c] : Found(dir, n) # {}

(* What a file holds, what a client with an open file sees, and the file   *)
(* that has the block of its handle.                                       *)
Contents(n) == IF Found(dir, n) = {} THEN NULL
               ELSE blk[dir[CHOOSE i \in First(Found(dir, n)) : TRUE].rdr_blknr]
OpenFileOf(c) == IF finode[c] = NULL THEN NULL ELSE <<finode[c].fname, finode[c].data>>
HasBlockOf(c, i) == finode[c] # NULL /\ dir[i].rdr_blknr = finode[c].fmd_sfblk
HandleOf(c) == IF \A i \in Live : ~HasBlockOf(c, i) THEN NULL
               ELSE dir[CHOOSE i \in Live : HasBlockOf(c, i)].rdr_name

(* Copies, bitmap and directory entries are an implementation of files: a  *)
(* file exists from its creation to its deletion, a program that opens it  *)
(* finds what was saved last, and nothing changes it but what is saved     *)
(* through its handles.  A handle whose file was deleted (krlsve_ioctrl    *)
(* has no other way to delete it) is on a file only if that was created    *)
(* since; then it overwrites it (rfs_closefileblk), and no other file.     *)
F == INSTANCE Files WITH NoFile <- NULL, file <- [n \in Name |-> Contents(n)],
                         open <- [c \in Client |-> OpenFileOf(c)],
                         on <- [c \in Client |-> HandleOf(c)]
ImplementsFiles == F!Spec
=============================================================================
