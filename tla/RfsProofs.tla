------------------------------ MODULE RfsProofs ------------------------------
(***************************************************************************)
(* Proofs about Rfs, for any number of clients, names and blocks: every    *)
(* variable keeps its type, also when clients interleave in the driver;    *)
(* and until a client enters the driver while another one is inside,       *)
(* bitmap and directory agree, no file created gets lost, and the driver   *)
(* implements Files.                                                       *)
(***************************************************************************)
EXTENDS Rfs, SequenceTheorems, TLAPS

Inside(c)   == pc[c] # "out"
HasBlock(c) == pc[c] \in {"new_dir", "new_file", "new_put"}
(* The blocks of the entries of q have been written. *)
Written(q, b) == \A i \in DOMAIN q : q[i] # NULL => b[q[i].rdr_blknr] # NULL

(* What the type of the next state rests on. *)
BufsOK  == \A c \in Client : Len(dirbuf[c]) <= DirMax /\ Written(dirbuf[c], blk)
NamesOK == \A c \in Client : Inside(c) => fname[c] \in Name
BlksOK  == \A c \in Client : HasBlock(c) => fblk[c] \in Block
PutOK   == \A c \in Client :
             pc[c] = "new_put" => Len(dirbuf[c]) < DirMax /\ blk[fblk[c]] # NULL
TInv == TypeOK /\ Written(dir, blk) /\ BufsOK /\ NamesOK /\ BlksOK /\ PutOK

-----------------------------------------------------------------------------
(* Sequences of entries. *)

LEMMA EmptyEntries == << >> \in Seq(Entry \cup {NULL}) /\ Len(<< >>) = 0 /\ DOMAIN << >> = {}
OBVIOUS

(* Deleting a file keeps the length of the directory and empties one entry. *)
LEMMA WithoutFileSeq ==
  ASSUME NEW q \in Seq(Entry \cup {NULL}), NEW n
  PROVE  /\ WithoutFile(q, n) \in Seq(Entry \cup {NULL})
         /\ Len(WithoutFile(q, n)) = Len(q)
         /\ DOMAIN WithoutFile(q, n) = DOMAIN q
         /\ \A i \in DOMAIN q :
              WithoutFile(q, n)[i] = IF i \in First(Found(q, n)) THEN NULL ELSE q[i]
<1> DEFINE w == WithoutFile(q, n)
<1>1. Len(q) \in Nat /\ DOMAIN q = 1 .. Len(q) /\ \A i \in DOMAIN q : q[i] \in Entry \cup {NULL}
  BY LenProperties, ElementOfSeq
<1>2. /\ DOMAIN w = 1 .. Len(q)
      /\ \A i \in DOMAIN q : w[i] = IF i \in First(Found(q, n)) THEN NULL ELSE q[i]
  BY <1>1 DEF WithoutFile
<1>3. w \in [1 .. Len(q) -> Entry \cup {NULL}]
  BY <1>1 DEF WithoutFile
<1>4. w \in Seq(Entry \cup {NULL})
  BY <1>1, <1>3, SeqDef
<1> QED BY <1>1, <1>2, <1>4, LenProperties

LEMMA AppendEntry ==
  ASSUME NEW q \in Seq(Entry \cup {NULL}), NEW e \in Entry
  PROVE  /\ Append(q, e) \in Seq(Entry \cup {NULL})
         /\ Len(Append(q, e)) = Len(q) + 1 /\ Len(q) \in Nat
         /\ DOMAIN Append(q, e) = DOMAIN q \cup {Len(q) + 1}
         /\ DOMAIN q = 1 .. Len(q)
         /\ \A i \in DOMAIN q : Append(q, e)[i] = q[i]
         /\ Append(q, e)[Len(q) + 1] = e
<1> e \in Entry \cup {NULL}
  OBVIOUS
<1> QED BY AppendProperties, LenProperties

-----------------------------------------------------------------------------
(* The type invariant, one lemma per step. *)

LEMMA InitTypes == Init => TInv
<1> SUFFICES ASSUME Init PROVE TInv
  OBVIOUS
<1>1. TypeOK
  <2>1. dir \in Seq(Entry \cup {NULL}) /\ Len(dir) <= DirMax
    BY EmptyEntries, RfsAssumption DEF Init
  <2>2. dirbuf \in [Client -> Seq(Entry \cup {NULL})]
    BY EmptyEntries DEF Init
  <2>3. /\ pc \in [Client -> Pcs] /\ finode \in [Client -> Buffer \cup {NULL}]
        /\ blk \in [Block -> Seq(Name) \cup {NULL}]
    BY DEF Init, Pcs
  <2>4. /\ bitmap \subseteq Block /\ fname \in [Client -> Name \cup {NULL}]
        /\ bmpbuf \in [Client -> SUBSET Block] /\ fblk \in [Client -> Block \cup {NULL}]
        /\ made \in [Client -> SUBSET Name] /\ lost \subseteq Block /\ died \subseteq Client
    BY DEF Init
  <2> QED BY <2>1, <2>2, <2>3, <2>4 DEF TypeOK
<1>2. Written(dir, blk) /\ BufsOK
  BY EmptyEntries, RfsAssumption DEF Init, Written, BufsOK
<1>3. NamesOK /\ BlksOK /\ PutOK
  BY DEF Init, NamesOK, BlksOK, PutOK, Inside, HasBlock
<1> QED BY <1>1, <1>2, <1>3 DEF TInv

(* A client enters with a copy of the directory. *)
LEMMA EnterTypes ==
  ASSUME TInv, NEW c \in Client, NEW n \in Name, NEW l \in Pcs \ {"new_dir", "new_file", "new_put"},
         fname' = [fname EXCEPT ![c] = n], GetDir(c), Goto(c, l),
         UNCHANGED <<disk, bmpbuf, fblk, finode, hist, died>>
  PROVE  TInv'
<1> USE DEF GetDir, Goto, disk, hist
<1>1. TypeOK'
  BY DEF TInv, TypeOK
<1>2. Written(dir, blk)' /\ BufsOK'
  BY DEF TInv, TypeOK, Written, BufsOK
<1>3. NamesOK'
  BY DEF TInv, TypeOK, NamesOK, Inside
<1>4. BlksOK' /\ PutOK'
  BY DEF TInv, TypeOK, BlksOK, PutOK, HasBlock
<1> QED BY <1>1, <1>2, <1>3, <1>4 DEF TInv

(* A client leaves, having changed nothing but bitmap and directory. *)
LEMMA LeaveTypes ==
  ASSUME TInv, NEW c \in Client, Leave(c),
         dir' \in Seq(Entry \cup {NULL}), Len(dir') <= DirMax, Written(dir', blk),
         bitmap' \subseteq Block, made' \in [Client -> SUBSET Name], lost' \subseteq Block,
         died' \subseteq Client,
         UNCHANGED <<blk, finode>>
  PROVE  TInv'
<1> USE DEF Leave, Goto
<1>1. TypeOK'
  BY EmptyEntries DEF TInv, TypeOK, Pcs
<1>2. Written(dir, blk)' /\ BufsOK'
  BY EmptyEntries, RfsAssumption DEF TInv, TypeOK, Written, BufsOK
<1>3. NamesOK' /\ BlksOK'
  BY DEF TInv, TypeOK, NamesOK, BlksOK, Inside, HasBlock
<1>4. PutOK'
  BY DEF TInv, TypeOK, PutOK
<1> QED BY <1>1, <1>2, <1>3, <1>4 DEF TInv

LEMMA NewChkTypes == ASSUME TInv, NEW c \in Client, NewChk(c) PROVE TInv'
<1>1. /\ dirbuf[c] \in Seq(Entry \cup {NULL}) /\ Len(dirbuf[c]) <= DirMax
      /\ Written(dirbuf[c], blk) /\ dir' = dirbuf[c]
  BY DEF TInv, TypeOK, BufsOK, NewChk, PutDir
<1>2. CASE Leave(c)
  BY <1>1, <1>2, LeaveTypes DEF NewChk, TInv, TypeOK, hist
<1>3. CASE Goto(c, "new_blk") /\ UNCHANGED local
  <2> USE <1>3 DEF NewChk, Goto, local, hist
  <2>1. TypeOK'
    BY <1>1 DEF TInv, TypeOK, Pcs
  <2>2. Written(dir, blk)' /\ BufsOK'
    BY <1>1 DEF TInv, TypeOK, Written, BufsOK
  <2>3. NamesOK' /\ BlksOK' /\ PutOK'
    BY DEF TInv, TypeOK, At, NamesOK, BlksOK, PutOK, Inside, HasBlock
  <2> QED BY <2>1, <2>2, <2>3 DEF TInv
<1> QED BY <1>2, <1>3 DEF NewChk

LEMMA NewBlkTypes == ASSUME TInv, NEW c \in Client, NewBlk(c) PROVE TInv'
<1> USE DEF NewBlk, GetBitmap, Goto, disk, At, hist
<1>1. TypeOK'
  BY DEF TInv, TypeOK, Pcs
<1>2. Written(dir, blk)' /\ BufsOK'
  BY DEF TInv, TypeOK, Written, BufsOK
<1>3. NamesOK' /\ BlksOK' /\ PutOK'
  BY DEF TInv, TypeOK, NamesOK, BlksOK, PutOK, Inside, HasBlock
<1> QED BY <1>1, <1>2, <1>3 DEF TInv

(* There is no memory: the client leaves, with or without a block, or     *)
(* hal_sysdie is called.                                                   *)
LEMMA NoMemTypes ==
  ASSUME TInv, NEW c \in Client,
         NewBlkNoMem(c) \/ NewDirNoMem(c)
  PROVE  TInv'
<1>1. CASE NewBlkNoMem(c)
  BY <1>1, LeaveTypes DEF NewBlkNoMem, TInv, TypeOK, disk, hist
<1>2. CASE NewDirNoMem(c)
  <2>1. fblk[c] \in Block
    BY <1>2 DEF NewDirNoMem, At, TInv, BlksOK, HasBlock
  <2> QED BY <1>2, <2>1, LeaveTypes DEF NewDirNoMem, Lose, TInv, TypeOK, disk
<1> QED BY <1>1, <1>2

LEMMA DieTypes == ASSUME TInv, NEW c \in Client, Die(c) PROVE TInv'
<1> USE DEF Die, disk, local, hist
<1>1. TypeOK'
  BY DEF TInv, TypeOK
<1>2. Written(dir, blk)' /\ BufsOK'
  BY DEF TInv, Written, BufsOK
<1>3. NamesOK' /\ BlksOK' /\ PutOK'
  BY DEF TInv, NamesOK, BlksOK, PutOK, Inside, HasBlock
<1> QED BY <1>1, <1>2, <1>3 DEF TInv

LEMMA NewBmpTypes == ASSUME TInv, NEW c \in Client, NewBmp(c) PROVE TInv'
<1>1. CASE Block \subseteq bmpbuf[c] /\ bitmap' = bmpbuf[c] /\ Leave(c)
  BY <1>1, LeaveTypes DEF NewBmp, TInv, TypeOK, hist
<1>2. ASSUME NEW b \in First(Block \ bmpbuf[c]), bitmap' = Marked(bmpbuf[c], b),
             fblk' = [fblk EXCEPT ![c] = b], Goto(c, "new_dir"), UNCHANGED <<fname, dirbuf, bmpbuf>>
      PROVE  TInv'
  <2> USE <1>2 DEF NewBmp, Goto, At, hist
  <2>0. b \in Block /\ bitmap' \subseteq Block
    BY DEF First, Marked, TInv, TypeOK
  <2>1. TypeOK'
    BY <2>0 DEF TInv, TypeOK, Pcs
  <2>2. Written(dir, blk)' /\ BufsOK'
    BY DEF TInv, TypeOK, Written, BufsOK
  <2>3. NamesOK' /\ BlksOK' /\ PutOK'
    BY <2>0 DEF TInv, TypeOK, NamesOK, BlksOK, PutOK, Inside, HasBlock
  <2> QED BY <2>1, <2>2, <2>3 DEF TInv
<1> QED BY <1>1, <1>2 DEF NewBmp

LEMMA NewDirTypes == ASSUME TInv, NEW c \in Client, NewDir(c) PROVE TInv'
<1> USE DEF NewDir, GetDir, Goto, disk, At, hist
<1>1. TypeOK'
  BY DEF TInv, TypeOK, Pcs
<1>2. Written(dir, blk)' /\ BufsOK'
  BY DEF TInv, TypeOK, Written, BufsOK
<1>3. NamesOK' /\ BlksOK' /\ PutOK'
  BY DEF TInv, TypeOK, NamesOK, BlksOK, PutOK, Inside, HasBlock
<1> QED BY <1>1, <1>2, <1>3 DEF TInv

(* A block that is written stays written. *)
LEMMA WrittenKept ==
  ASSUME NEW q, NEW b \in Block, NEW data, data # NULL, Written(q, blk), TypeOK,
         blk' = [blk EXCEPT ![b] = data]
  PROVE  Written(q, blk')
BY DEF Written, TypeOK

LEMMA NewFileBlkTypes == ASSUME TInv, NEW c \in Client, NewFileBlk(c) PROVE TInv'
<1>1. CASE PutDir(c) /\ Lose(c) /\ Leave(c) /\ UNCHANGED blk
  <2>1. fblk[c] \in Block
    BY DEF NewFileBlk, At, TInv, BlksOK, HasBlock
  <2> QED BY <1>1, <2>1, LeaveTypes DEF NewFileBlk, PutDir, Lose, TInv, TypeOK, BufsOK
<1>2. CASE /\ ~DirFull(dirbuf[c])
           /\ blk' = [blk EXCEPT ![fblk[c]] = FileHeader(fblk[c])]
           /\ Goto(c, "new_put")
           /\ UNCHANGED <<dir, local, hist>>
  <2> USE <1>2 DEF NewFileBlk, Goto, At, local, hist
  <2>0. /\ fblk[c] \in Block /\ << >> \in Seq(Name) /\ << >> # NULL
        /\ FileHeader(fblk[c]) = << >>
    <3>1. fblk[c] \in Block
      BY DEF TInv, BlksOK, HasBlock
    <3>2. << >> \in Seq(Name)
      OBVIOUS
    <3> QED BY <3>1, <3>2, RfsAssumption DEF FileHeader
  <2>1. TypeOK'
    BY <2>0 DEF TInv, TypeOK, Pcs
  <2>2. Written(dir, blk)' /\ BufsOK'
    BY <2>0, WrittenKept DEF TInv, BufsOK
  <2>3. NamesOK' /\ BlksOK'
    BY DEF TInv, TypeOK, NamesOK, BlksOK, Inside, HasBlock
  <2>4. PutOK'
    <3>1. Len(dirbuf[c]) \in Nat /\ Len(dirbuf[c]) < DirMax
      BY LenProperties, RfsAssumption DEF TInv, TypeOK, BufsOK, DirFull
    <3>2. blk'[fblk[c]] # NULL
      BY <2>0 DEF TInv, TypeOK
    <3>3. ASSUME NEW o \in Client, o # c, pc[o] = "new_put"
          PROVE  blk'[fblk[o]] # NULL /\ Len(dirbuf[o]) < DirMax
      BY <2>0, <3>3 DEF TInv, TypeOK, PutOK, BlksOK, HasBlock
    <3> QED BY <3>1, <3>2, <3>3 DEF PutOK, TInv, TypeOK
  <2> QED BY <2>1, <2>2, <2>3, <2>4 DEF TInv
<1> QED BY <1>1, <1>2 DEF NewFileBlk

LEMMA NewPutTypes == ASSUME TInv, NEW c \in Client, NewPut(c) PROVE TInv'
<1> DEFINE e == [rdr_name |-> fname[c], rdr_blknr |-> fblk[c]]
<1>1. /\ e \in Entry /\ blk[fblk[c]] # NULL /\ Len(dirbuf[c]) < DirMax /\ fname[c] \in Name
  BY DEF TInv, NamesOK, BlksOK, PutOK, NewPut, At, Inside, HasBlock, Entry
<1>2. dirbuf[c] \in Seq(Entry \cup {NULL}) /\ Written(dirbuf[c], blk)
  BY DEF TInv, TypeOK, BufsOK
<1>3. dir' \in Seq(Entry \cup {NULL}) /\ Len(dir') <= DirMax
  BY <1>1, <1>2, AppendEntry, RfsAssumption DEF NewPut
<1>4. Written(dir', blk)
  BY <1>1, <1>2, AppendEntry DEF NewPut, Written
<1>5. made' \in [Client -> SUBSET Name]
  BY <1>1 DEF NewPut, TInv, TypeOK
<1> QED BY <1>3, <1>4, <1>5, LeaveTypes DEF NewPut, TInv, TypeOK

LEMMA DelBlkTypes == ASSUME TInv, NEW c \in Client, DelBlk(c) PROVE TInv'
<1>1. CASE PutDir(c) /\ Leave(c)
  BY <1>1, LeaveTypes DEF DelBlk, PutDir, TInv, TypeOK, BufsOK, hist
<1>2. CASE GetBitmap(c) /\ Goto(c, "del_bmp") /\ UNCHANGED <<dir, fname, dirbuf, fblk>>
  <2> USE <1>2 DEF DelBlk, GetBitmap, Goto, At, hist
  <2>1. TypeOK'
    BY DEF TInv, TypeOK, Pcs
  <2>2. Written(dir, blk)' /\ BufsOK'
    BY DEF TInv, TypeOK, Written, BufsOK
  <2>3. NamesOK' /\ BlksOK' /\ PutOK'
    BY DEF TInv, TypeOK, NamesOK, BlksOK, PutOK, Inside, HasBlock
  <2> QED BY <2>1, <2>2, <2>3 DEF TInv
<1> QED BY <1>1, <1>2 DEF DelBlk

LEMMA DelBmpTypes == ASSUME TInv, NEW c \in Client, DelBmp(c) PROVE TInv'
<1> USE DEF DelBmp, Goto, At, local, hist
<1>1. bitmap' \subseteq Block
  BY DEF TInv, TypeOK
<1>2. TypeOK'
  BY <1>1 DEF TInv, TypeOK, Pcs
<1>3. Written(dir, blk)' /\ BufsOK'
  BY DEF TInv, TypeOK, Written, BufsOK
<1>4. NamesOK' /\ BlksOK' /\ PutOK'
  BY DEF TInv, TypeOK, NamesOK, BlksOK, PutOK, Inside, HasBlock
<1> QED BY <1>2, <1>3, <1>4 DEF TInv

LEMMA DelPutTypes == ASSUME TInv, NEW c \in Client, DelPut(c) PROVE TInv'
<1>1. dirbuf[c] \in Seq(Entry \cup {NULL}) /\ Len(dirbuf[c]) <= DirMax /\ Written(dirbuf[c], blk)
  BY DEF TInv, TypeOK, BufsOK
<1>2. dir' \in Seq(Entry \cup {NULL}) /\ Len(dir') <= DirMax
  BY <1>1, WithoutFileSeq DEF DelPut
<1>3. Written(dir', blk)
  BY <1>1, WithoutFileSeq DEF DelPut, Written
<1>4. made' \in [Client -> SUBSET Name]
  BY DEF DelPut, TInv, TypeOK
<1> QED BY <1>2, <1>3, <1>4, LeaveTypes DEF DelPut, TInv, TypeOK

LEMMA OpBlkTypes == ASSUME TInv, NEW c \in Client, OpBlk(c) PROVE TInv'
<1> USE DEF OpBlk, Goto, At, local, disk, hist
<1>1. finode' \in [Client -> Buffer \cup {NULL}]
  <2>1. CASE UNCHANGED finode
    BY <2>1 DEF TInv, TypeOK
  <2>2. ASSUME NEW i \in First(Found(dirbuf[c], fname[c])),
               finode' = [finode EXCEPT ![c] = [fname |-> fname[c], fmd_sfblk |-> dirbuf[c][i].rdr_blknr,
                                                data |-> blk[dirbuf[c][i].rdr_blknr]]]
        PROVE  finode' \in [Client -> Buffer \cup {NULL}]
    <3>1. i \in DOMAIN dirbuf[c] /\ dirbuf[c][i] # NULL /\ dirbuf[c] \in Seq(Entry \cup {NULL})
      BY DEF First, Found, TInv, TypeOK
    <3>2. dirbuf[c][i] \in Entry
      BY <3>1, ElementOfSeq, LenProperties
    <3>3. dirbuf[c][i].rdr_blknr \in Block
      BY <3>2 DEF Entry
    <3>4. blk[dirbuf[c][i].rdr_blknr] \in Seq(Name)
      BY <3>1, <3>3 DEF TInv, TypeOK, BufsOK, Written
    <3>5. fname[c] \in Name
      BY DEF TInv, NamesOK, Inside
    <3> QED BY <2>2, <3>3, <3>4, <3>5 DEF Buffer, TInv, TypeOK
  <2> QED BY <2>1, <2>2
<1>2. TypeOK'
  BY <1>1 DEF TInv, TypeOK, Pcs
<1>3. Written(dir, blk)' /\ BufsOK'
  BY DEF TInv, TypeOK, Written, BufsOK
<1>4. NamesOK' /\ BlksOK' /\ PutOK'
  BY DEF TInv, TypeOK, NamesOK, BlksOK, PutOK, Inside, HasBlock
<1> QED BY <1>2, <1>3, <1>4 DEF TInv

LEMMA OpPutTypes == ASSUME TInv, NEW c \in Client, OpPut(c) PROVE TInv'
<1>1. dir' = dirbuf[c] /\ dirbuf[c] \in Seq(Entry \cup {NULL}) /\ Len(dirbuf[c]) <= DirMax
      /\ Written(dirbuf[c], blk)
  BY DEF OpPut, PutDir, TInv, TypeOK, BufsOK
<1> QED BY <1>1, LeaveTypes DEF OpPut, TInv, TypeOK, hist

(* The open file writes its buffer, which data replace, to its block. *)
LEMMA SaveTypes ==
  ASSUME TInv, NEW c \in Client, finode[c] # NULL, NEW data \in Seq(Name),
         blk' = [blk EXCEPT ![finode[c].fmd_sfblk] = data],
         finode' = [finode EXCEPT ![c].data = data] \/ finode' = [finode EXCEPT ![c] = NULL],
         UNCHANGED <<dir, bitmap, pc, local, hist, died>>
  PROVE  TInv'
<1> USE DEF local, hist
<1>1. finode[c] \in Buffer /\ finode[c].fmd_sfblk \in Block /\ data # NULL
  BY RfsAssumption DEF TInv, TypeOK, Buffer
<1>2. finode' \in [Client -> Buffer \cup {NULL}]
  <2>1. [finode[c] EXCEPT !.data = data] \in Buffer
    BY <1>1 DEF Buffer
  <2> QED BY <2>1 DEF TInv, TypeOK
<1>3. TypeOK'
  BY <1>1, <1>2 DEF TInv, TypeOK
<1>4. Written(dir, blk)' /\ BufsOK'
  BY <1>1, WrittenKept DEF TInv, BufsOK
<1>5. NamesOK' /\ BlksOK'
  BY DEF TInv, NamesOK, BlksOK, Inside, HasBlock
<1>6. PutOK'
  BY <1>1 DEF TInv, TypeOK, PutOK, BlksOK, HasBlock
<1> QED BY <1>3, <1>4, <1>5, <1>6 DEF TInv

LEMMA WriteFileTypes == ASSUME TInv, NEW c \in Client, WriteFile(c) PROVE TInv'
<1>1. finode[c] \in Buffer /\ finode[c] # NULL
  BY DEF WriteFile, TInv, TypeOK
<1>2. Append(finode[c].data, finode[c].fname) \in Seq(Name)
  BY <1>1, AppendProperties DEF Buffer
<1> QED BY <1>1, <1>2, SaveTypes DEF WriteFile

LEMMA CloseFileTypes == ASSUME TInv, NEW c \in Client, CloseFile(c) PROVE TInv'
<1>1. finode[c] \in Buffer /\ finode[c] # NULL /\ finode[c].data \in Seq(Name)
  BY DEF CloseFile, TInv, TypeOK, Buffer
<1> QED BY <1>1, SaveTypes DEF CloseFile

(* The steps of the driver; where there is no memory for a bitmap or for   *)
(* the file to be opened, hal_sysdie is called.                            *)
LEMMA NextIs ==
  Next => \E c \in Client :
             \/ \E n \in Name : NewFile(c, n) \/ DelFile(c, n) \/ OpenFile(c, n)
             \/ NewChk(c) \/ NewBlk(c) \/ NewBmp(c) \/ NewDir(c) \/ NewFileBlk(c) \/ NewPut(c)
             \/ NewBlkNoMem(c) \/ NewDirNoMem(c)
             \/ DelBlk(c) \/ DelBmp(c) \/ DelPut(c) \/ OpBlk(c) \/ OpPut(c)
             \/ WriteFile(c) \/ CloseFile(c) \/ Die(c)
BY DEF Next, NewBmpNoMem, DelNoMem, OpenNoMem

LEMMA NextTypes == ASSUME TInv, [Next]_vars PROVE TInv'
<1>1. CASE UNCHANGED vars
  BY <1>1 DEF vars, disk, local, hist, TInv, TypeOK, Written, BufsOK, NamesOK, BlksOK, PutOK, Inside, HasBlock
<1>2. ASSUME NEW c \in Client, NEW n \in Name, NewFile(c, n) \/ DelFile(c, n) \/ OpenFile(c, n)
      PROVE  TInv'
  BY <1>2, EnterTypes DEF NewFile, DelFile, OpenFile, Pcs
<1>3. ASSUME NEW c \in Client,
             \/ NewChk(c) \/ NewBlk(c) \/ NewBmp(c) \/ NewDir(c) \/ NewFileBlk(c) \/ NewPut(c)
             \/ DelBlk(c) \/ DelBmp(c) \/ DelPut(c) \/ OpBlk(c) \/ OpPut(c)
             \/ WriteFile(c) \/ CloseFile(c)
      PROVE  TInv'
  BY <1>3, NewChkTypes, NewBlkTypes, NewBmpTypes, NewDirTypes, NewFileBlkTypes, NewPutTypes,
     DelBlkTypes, DelBmpTypes, DelPutTypes, OpBlkTypes, OpPutTypes, WriteFileTypes, CloseFileTypes
<1>4. ASSUME NEW c \in Client, NewBlkNoMem(c) \/ NewDirNoMem(c) PROVE TInv'
  BY <1>4, NoMemTypes
<1>5. ASSUME NEW c \in Client, Die(c) PROVE TInv'
  BY <1>5, DieTypes
<1> QED BY <1>1, <1>2, <1>3, <1>4, <1>5, NextIs

LEMMA TypesAlways == Spec => []TInv
<1>1. Init => TInv
  BY InitTypes
<1>2. TInv /\ [Next]_vars => TInv'
  BY NextTypes
<1> QED BY <1>1, <1>2, PTL DEF Spec

(* Every variable keeps its type and the directory its size, with any      *)
(* number of clients in the driver at the same time: what is lost then     *)
(* is files and blocks, not the structure.                                 *)
THEOREM TypeCorrect == Spec => []TypeOK
<1>1. TInv => TypeOK
  BY DEF TInv
<1> QED BY <1>1, TypesAlways, PTL

-----------------------------------------------------------------------------
(* Directories. *)

BlksIn(q) == {q[i].rdr_blknr : i \in {j \in DOMAIN q : q[j] # NULL}}
BlksOf(q, n) == {q[i].rdr_blknr : i \in Found(q, n)}
(* No two entries have one name or one block. *)
UniqueIn(q) ==
  \A i, j \in DOMAIN q : q[i] # NULL /\ q[j] # NULL /\ i # j =>
    q[i].rdr_name # q[j].rdr_name /\ q[i].rdr_blknr # q[j].rdr_blknr

LEMMA FoundOne ==
  ASSUME NEW q, NEW n, UniqueIn(q), NEW i \in Found(q, n)
  PROVE  Found(q, n) = {i} /\ BlksOf(q, n) = {q[i].rdr_blknr}
BY DEF Found, UniqueIn, BlksOf

LEMMA FirstFound ==
  ASSUME NEW q \in Seq(Entry \cup {NULL}), NEW n, UniqueIn(q)
  PROVE  First(Found(q, n)) = Found(q, n)
<1>1. CASE Found(q, n) = {}
  BY <1>1 DEF First
<1>2. ASSUME NEW i \in Found(q, n) PROVE First(Found(q, n)) = Found(q, n)
  <2>1. i \in Nat
    BY LenProperties DEF Found
  <2>2. Found(q, n) = {i}
    BY <1>2, FoundOne
  <2> QED BY <2>1, <2>2 DEF First
<1> QED BY <1>1, <1>2

LEMMA AppendDir ==
  ASSUME NEW q \in Seq(Entry \cup {NULL}), NEW e \in Entry, UniqueIn(q),
         Found(q, e.rdr_name) = {}, e.rdr_blknr \notin BlksIn(q)
  PROVE  /\ UniqueIn(Append(q, e))
         /\ BlksIn(Append(q, e)) = BlksIn(q) \cup {e.rdr_blknr}
         /\ Found(Append(q, e), e.rdr_name) = {Len(q) + 1}
         /\ \A n : n # e.rdr_name => Found(Append(q, e), n) = Found(q, n)
         /\ \A i \in DOMAIN q : Append(q, e)[i] = q[i]
         /\ Append(q, e)[Len(q) + 1] = e
<1> DEFINE w == Append(q, e)
<1>1. /\ DOMAIN w = DOMAIN q \cup {Len(q) + 1} /\ Len(q) + 1 \notin DOMAIN q
      /\ \A i \in DOMAIN q : w[i] = q[i]
      /\ w[Len(q) + 1] = e /\ e # NULL
  BY AppendEntry, RfsAssumption
<1> HIDE DEF w
<1>2. UniqueIn(w)
  BY <1>1 DEF UniqueIn, Found, BlksIn
<1>3. BlksIn(w) = BlksIn(q) \cup {e.rdr_blknr}
  BY <1>1 DEF BlksIn
<1>4. Found(w, e.rdr_name) = {Len(q) + 1}
  BY <1>1 DEF Found
<1>5. ASSUME NEW n, n # e.rdr_name PROVE Found(w, n) = Found(q, n)
  BY <1>1, <1>5 DEF Found
<1> QED BY <1>1, <1>2, <1>3, <1>4, <1>5 DEF w

LEMMA WithoutDir ==
  ASSUME NEW q \in Seq(Entry \cup {NULL}), NEW n, UniqueIn(q)
  PROVE  /\ UniqueIn(WithoutFile(q, n))
         /\ BlksIn(WithoutFile(q, n)) = BlksIn(q) \ BlksOf(q, n)
         /\ Found(WithoutFile(q, n), n) = {}
         /\ \A m : m # n => Found(WithoutFile(q, n), m) = Found(q, m)
         /\ \A i \in DOMAIN q : i \notin Found(q, n) => WithoutFile(q, n)[i] = q[i]
<1> DEFINE w == WithoutFile(q, n)
<1>1. /\ DOMAIN w = DOMAIN q
      /\ \A i \in DOMAIN q : w[i] = IF i \in Found(q, n) THEN NULL ELSE q[i]
  BY WithoutFileSeq, FirstFound
<1> HIDE DEF w
<1>2. UniqueIn(w)
  BY <1>1 DEF UniqueIn
<1>3. Found(w, n) = {}
  BY <1>1 DEF Found
<1>4. ASSUME NEW m, m # n PROVE Found(w, m) = Found(q, m)
  BY <1>1, <1>4 DEF Found
<1>5. BlksIn(w) = BlksIn(q) \ BlksOf(q, n)
  <2>1. ASSUME NEW i \in DOMAIN q, q[i] # NULL, i \notin Found(q, n)
        PROVE  q[i].rdr_blknr \notin BlksOf(q, n)
    BY <2>1 DEF UniqueIn, BlksOf, Found
  <2> QED BY <1>1, <2>1 DEF BlksIn, BlksOf, Found
<1> QED BY <1>1, <1>2, <1>3, <1>4, <1>5 DEF w

-----------------------------------------------------------------------------
(* One client in the driver at a time.  Where a client is says what its    *)
(* copies are worth and which blocks are in use.                           *)

Alone == \A c, o \in Client : Inside(c) /\ Inside(o) => c = o

(* U and those that were lost are the blocks in use. *)
Match(U) == bitmap = U \cup lost /\ U \cap lost = {}
Used(c) ==
  IF HasBlock(c) THEN BlksIn(dir) \cup {fblk[c]}
  ELSE IF pc[c] = "del_put" THEN BlksIn(dir) \ BlksOf(dir, fname[c]) ELSE BlksIn(dir)

Searched == {"new_blk", "new_bmp", "new_dir", "new_file", "new_put"}
PhaseOK(c) ==
  /\ dirbuf[c] = dir
  /\ pc[c] \in {"new_bmp", "del_bmp"} => bmpbuf[c] = bitmap
  /\ pc[c] \in Searched => Found(dir, fname[c]) = {}
  /\ pc[c] \in {"del_bmp", "del_put"} => Found(dir, fname[c]) # {}
  /\ HasBlock(c) => fblk[c] \notin BlksIn(dir)
  /\ pc[c] = "new_put" => blk[fblk[c]] = << >>
  /\ pc[c] = "op_blk" => finode[c] = NULL
  /\ \A o \in Client \ {c} : fname[c] \notin made[o]
  /\ Match(Used(c))

(* The files in the directory are those that were created, each by one     *)
(* client, and not deleted.                                                *)
MadeOK ==
  /\ \A n \in Name : Found(dir, n) # {} <=> \E c \in Client : n \in made[c]
  /\ \A c, o \in Client : c # o => made[c] \cap made[o] = {}

SInv ==
  /\ TInv /\ Alone /\ UniqueIn(dir) /\ MadeOK
  /\ \A c \in Client : Inside(c) => PhaseOK(c)
  /\ (\A c \in Client : ~Inside(c)) => Match(BlksIn(dir))

(* A step of client c, the others being outside. *)
LEMMA StepSafe ==
  ASSUME SInv, TInv', NEW c \in Client,
         \A o \in Client \ {c} : ~Inside(o) /\ pc'[o] = pc[o],
         UniqueIn(dir)', MadeOK',
         Inside(c)' => PhaseOK(c)', ~Inside(c)' => Match(BlksIn(dir))'
  PROVE  SInv'
<1>1. \A o \in Client \ {c} : ~Inside(o)'
  BY DEF Inside
<1>2. Alone'
  BY <1>1 DEF Alone
<1>3. \A o \in Client : Inside(o)' => PhaseOK(o)'
  BY <1>1
<1>4. (\A o \in Client : ~Inside(o)') => Match(BlksIn(dir))'
  OBVIOUS
<1> QED BY <1>2, <1>3, <1>4 DEF SInv

LEMMA InitSafe == Init => SInv
<1> SUFFICES ASSUME Init PROVE SInv
  OBVIOUS
<1>1. \A n : Found(dir, n) = {}
  BY EmptyEntries DEF Init, Found
<1>2. UniqueIn(dir) /\ BlksIn(dir) = {}
  BY EmptyEntries DEF Init, UniqueIn, BlksIn
<1>3. MadeOK
  BY <1>1 DEF Init, MadeOK
<1> QED BY <1>1, <1>2, <1>3, InitTypes DEF Init, SInv, Alone, Inside, Match

(* A client that is inside is the only one. *)
LEMMA Others ==
  ASSUME SInv, NEW c \in Client, Inside(c)
  PROVE  PhaseOK(c) /\ \A o \in Client \ {c} : ~Inside(o)
BY DEF SInv, Alone

LEMMA EnterSafe ==
  ASSUME SInv, TInv', NEW c \in Client, NEW n \in Name, Own(c, n),
         \A o \in Client : pc[o] = "out",
         fname' = [fname EXCEPT ![c] = n], GetDir(c),
         NEW l \in {"new_chk", "del_blk", "op_blk"}, Goto(c, l), l = "op_blk" => finode[c] = NULL,
         UNCHANGED <<disk, bmpbuf, fblk, finode, hist, died>>
  PROVE  SInv'
<1> USE DEF disk, hist
<1>1. /\ pc'[c] = l /\ fname'[c] = n /\ dirbuf'[c] = dir
      /\ \A o \in Client \ {c} : ~Inside(o) /\ pc'[o] = pc[o]
  BY DEF Inside, Goto, GetDir, SInv, TInv, TypeOK
<1>2. Match(BlksIn(dir))
  BY DEF SInv, Inside
<1>3. PhaseOK(c)'
  BY <1>1, <1>2 DEF PhaseOK, Own, Searched, HasBlock, Used, Match
<1>4. UniqueIn(dir)' /\ MadeOK'
  BY DEF SInv, MadeOK
<1> QED BY <1>1, <1>3, <1>4, StepSafe DEF Inside

(* A client leaves; what it wrote to the bitmap and the directory is U. *)
LEMMA LeaveSafe ==
  ASSUME SInv, TInv', NEW c \in Client, Inside(c), Leave(c),
         UniqueIn(dir)', MadeOK', Match(BlksIn(dir))'
  PROVE  SInv'
<1>1. pc'[c] = "out" /\ \A o \in Client \ {c} : ~Inside(o) /\ pc'[o] = pc[o]
  BY Others DEF Leave, Goto, SInv, TInv, TypeOK
<1> QED BY <1>1, StepSafe DEF Inside

(* A client goes on; directory and files made stay as they are. *)
LEMMA GoOnSafe ==
  ASSUME SInv, TInv', NEW c \in Client, Inside(c), NEW l \in Pcs, Goto(c, l),
         UNCHANGED <<dir, hist>>, PhaseOK(c)'
  PROVE  SInv'
<1>1. \A o \in Client \ {c} : ~Inside(o) /\ pc'[o] = pc[o]
  BY Others DEF Goto, SInv, TInv, TypeOK
<1>2. UniqueIn(dir)' /\ MadeOK'
  BY DEF SInv, MadeOK, hist
<1>3. pc'[c] = l /\ (~Inside(c)' => Match(BlksIn(dir))')
  <2>1. pc'[c] = l
    BY DEF Goto, SInv, TInv, TypeOK
  <2>2. pc'[c] = "out" => Used(c)' = BlksIn(dir)'
    BY DEF Used, HasBlock
  <2> QED BY <2>1, <2>2 DEF PhaseOK, Match, Inside
<1> QED BY <1>1, <1>2, <1>3, StepSafe

(* The directory is written back as it was read. *)
LEMMA PutBack == ASSUME SInv, NEW c \in Client, Inside(c), PutDir(c) PROVE UNCHANGED dir
BY Others DEF PhaseOK, PutDir

(* A client leaves and has changed neither bitmap nor directory. *)
LEMMA LookedSafe ==
  ASSUME SInv, TInv', NEW c \in Client, Inside(c), Used(c) = BlksIn(dir), Leave(c),
         UNCHANGED <<dir, bitmap, hist>>
  PROVE  SInv'
<1>1. Match(BlksIn(dir))'
  BY Others DEF PhaseOK, Match, hist
<1>2. UniqueIn(dir)' /\ MadeOK'
  BY DEF SInv, MadeOK, hist
<1> QED BY <1>1, <1>2, LeaveSafe

LEMMA NewChkSafe == ASSUME SInv, TInv', NEW c \in Client, NewChk(c) PROVE SInv'
<1>1. Inside(c) /\ UNCHANGED dir /\ Used(c) = BlksIn(dir) /\ PhaseOK(c)
  BY PutBack, Others DEF NewChk, At, Inside, Used, HasBlock
<1>2. CASE Leave(c)
  BY <1>1, <1>2, LookedSafe DEF NewChk
<1>3. CASE Found(dirbuf[c], fname[c]) = {} /\ Goto(c, "new_blk") /\ UNCHANGED local
  <2>1. pc'[c] = "new_blk"
    BY <1>3 DEF Goto, SInv, TInv, TypeOK
  <2>2. PhaseOK(c)'
    BY <1>1, <1>3, <2>1 DEF PhaseOK, NewChk, local, hist, HasBlock, Used, Match
  <2> QED BY <1>1, <1>3, <2>2, GoOnSafe DEF NewChk, Pcs
<1> QED BY <1>2, <1>3 DEF NewChk

LEMMA NewBlkSafe == ASSUME SInv, TInv', NEW c \in Client, NewBlk(c) PROVE SInv'
<1>1. Inside(c) /\ PhaseOK(c) /\ pc[c] = "new_blk" /\ Used(c) = BlksIn(dir)
  BY Others DEF NewBlk, At, Inside, Used, HasBlock
<1>2. pc'[c] = "new_bmp" /\ bmpbuf'[c] = bitmap
  BY DEF NewBlk, Goto, GetBitmap, SInv, TInv, TypeOK
<1>3. PhaseOK(c)'
  BY <1>1, <1>2 DEF PhaseOK, NewBlk, disk, hist, HasBlock, Used, Match, Searched
<1> QED BY <1>1, <1>3, GoOnSafe DEF NewBlk, disk, Pcs

LEMMA NewBmpSafe == ASSUME SInv, TInv', NEW c \in Client, NewBmp(c) PROVE SInv'
<1>1. /\ Inside(c) /\ PhaseOK(c) /\ pc[c] = "new_bmp" /\ Used(c) = BlksIn(dir)
      /\ bmpbuf[c] = bitmap
  BY Others DEF NewBmp, At, Inside, Used, HasBlock, PhaseOK
<1>2. CASE bitmap' = bmpbuf[c] /\ Leave(c)
  BY <1>1, <1>2, LookedSafe DEF NewBmp
<1>3. ASSUME NEW b \in First(Block \ bmpbuf[c]), bitmap' = Marked(bmpbuf[c], b),
             fblk' = [fblk EXCEPT ![c] = b], Goto(c, "new_dir"), UNCHANGED <<fname, dirbuf, bmpbuf>>
      PROVE  SInv'
  <2>1. pc'[c] = "new_dir" /\ fblk'[c] = b /\ bitmap' = bitmap \cup {b} /\ b \notin bitmap
    BY <1>1, <1>3 DEF Goto, SInv, TInv, TypeOK, Marked, First
  <2>2. b \notin BlksIn(dir) /\ b \notin lost
    BY <1>1, <2>1 DEF PhaseOK, Match
  <2>3. PhaseOK(c)'
    <3>1. HasBlock(c)' /\ Used(c)' = BlksIn(dir)' \cup {b}
      BY <2>1 DEF Used, HasBlock
    <3>2. Match(Used(c))'
      BY <1>1, <2>1, <2>2, <3>1 DEF NewBmp, PhaseOK, Match, hist
    <3> QED BY <1>1, <1>3, <2>1, <2>2, <3>2 DEF PhaseOK, NewBmp, Searched, hist
  <2> QED BY <1>1, <1>3, <2>3, GoOnSafe DEF NewBmp, Pcs
<1> QED BY <1>2, <1>3 DEF NewBmp

LEMMA NewDirSafe == ASSUME SInv, TInv', NEW c \in Client, NewDir(c) PROVE SInv'
<1>1. Inside(c) /\ PhaseOK(c) /\ pc[c] = "new_dir"
  BY Others DEF NewDir, At, Inside
<1>2. pc'[c] = "new_file" /\ dirbuf'[c] = dir
  BY DEF NewDir, Goto, GetDir, SInv, TInv, TypeOK
<1>3. PhaseOK(c)'
  BY <1>1, <1>2 DEF PhaseOK, NewDir, disk, hist, HasBlock, Used, Match, Searched
<1> QED BY <1>1, <1>3, GoOnSafe DEF NewDir, disk, Pcs

(* The client leaves with its block in the bitmap, which is lost. *)
LEMMA LoseSafe ==
  ASSUME SInv, TInv', NEW c \in Client, Inside(c), HasBlock(c), Lose(c), Leave(c),
         UNCHANGED <<dir, bitmap>>
  PROVE  SInv'
<1>1. Match(BlksIn(dir) \cup {fblk[c]}) /\ fblk[c] \notin BlksIn(dir)
  BY Others DEF PhaseOK, Used
<1>2. Match(BlksIn(dir))'
  BY <1>1 DEF Match, Lose
<1>3. UniqueIn(dir)' /\ MadeOK'
  BY DEF SInv, MadeOK, Lose
<1> QED BY <1>2, <1>3, LeaveSafe

LEMMA NoMemSafe ==
  ASSUME SInv, TInv', NEW c \in Client, NewBlkNoMem(c) \/ NewDirNoMem(c)
  PROVE  SInv'
<1>1. CASE NewBlkNoMem(c)
  <2>1. Inside(c) /\ Used(c) = BlksIn(dir) /\ Leave(c) /\ UNCHANGED <<dir, bitmap, hist>>
    BY <1>1 DEF NewBlkNoMem, At, Inside, Used, HasBlock, disk
  <2> QED BY <2>1, LookedSafe
<1>2. CASE NewDirNoMem(c)
  <2>1. Inside(c) /\ HasBlock(c) /\ Lose(c) /\ Leave(c) /\ UNCHANGED <<dir, bitmap>>
    BY <1>2 DEF NewDirNoMem, At, Inside, HasBlock, disk
  <2> QED BY <2>1, LoseSafe
<1> QED BY <1>1, <1>2

LEMMA DieSafe == ASSUME SInv, TInv', NEW c \in Client, Die(c) PROVE SInv'
BY DEF Die, SInv, disk, local, hist, Alone, MadeOK, PhaseOK, Inside, HasBlock, Used, Match

LEMMA NewFileBlkSafe == ASSUME SInv, TInv', NEW c \in Client, NewFileBlk(c) PROVE SInv'
<1>1. Inside(c) /\ PhaseOK(c) /\ pc[c] = "new_file" /\ dirbuf[c] = dir /\ fblk[c] \in Block
  BY Others DEF NewFileBlk, At, Inside, PhaseOK, SInv, TInv, BlksOK, HasBlock
<1>2. CASE DirFull(dirbuf[c]) /\ PutDir(c) /\ Lose(c) /\ Leave(c)
  <2>1. UNCHANGED <<dir, bitmap>> /\ HasBlock(c)
    BY <1>1, <1>2, PutBack DEF NewFileBlk, HasBlock
  <2> QED BY <1>1, <1>2, <2>1, LoseSafe
<1>3. CASE /\ blk' = [blk EXCEPT ![fblk[c]] = FileHeader(fblk[c])]
           /\ Goto(c, "new_put") /\ UNCHANGED <<dir, local, hist>>
  <2>1. pc'[c] = "new_put" /\ blk'[fblk[c]] = << >>
    BY <1>1, <1>3 DEF Goto, SInv, TInv, TypeOK, FileHeader
  <2>2. PhaseOK(c)'
    BY <1>1, <1>3, <2>1 DEF PhaseOK, NewFileBlk, local, hist, HasBlock, Used, Match, Searched
  <2> QED BY <1>1, <1>3, <2>2, GoOnSafe DEF NewFileBlk, Pcs
<1> QED BY <1>2, <1>3 DEF NewFileBlk

LEMMA NewPutSafe == ASSUME SInv, TInv', NEW c \in Client, NewPut(c) PROVE SInv'
<1> DEFINE e == [rdr_name |-> fname[c], rdr_blknr |-> fblk[c]]
<1>1. /\ Inside(c) /\ PhaseOK(c) /\ pc[c] = "new_put" /\ dirbuf[c] = dir
      /\ Found(dir, fname[c]) = {} /\ fblk[c] \notin BlksIn(dir)
      /\ fblk[c] \in Block /\ fname[c] \in Name /\ Len(dir) < DirMax
      /\ dir' = Append(dir, e) /\ dir \in Seq(Entry \cup {NULL})
  BY Others DEF NewPut, At, Inside, PhaseOK, HasBlock, Searched, SInv, TInv, TypeOK, BlksOK, NamesOK, PutOK
<1>2. /\ e \in Entry /\ UniqueIn(dir)' /\ BlksIn(dir)' = BlksIn(dir) \cup {fblk[c]}
      /\ Found(dir', fname[c]) # {} /\ \A n : n # fname[c] => Found(dir', n) = Found(dir, n)
      /\ Len(dir) \in Nat /\ Len(dir') = Len(dir) + 1
  <2>1. e \in Entry /\ e.rdr_name = fname[c] /\ e.rdr_blknr = fblk[c]
    BY <1>1 DEF Entry
  <2>2. UniqueIn(dir)
    BY DEF SInv
  <2> HIDE DEF e
  <2>3. /\ UniqueIn(Append(dir, e)) /\ BlksIn(Append(dir, e)) = BlksIn(dir) \cup {fblk[c]}
        /\ Found(Append(dir, e), fname[c]) = {Len(dir) + 1}
        /\ \A n : n # fname[c] => Found(Append(dir, e), n) = Found(dir, n)
    BY <1>1, <2>1, <2>2, AppendDir
  <2>4. Len(dir) \in Nat /\ Len(Append(dir, e)) = Len(dir) + 1
    BY <1>1, <2>1, AppendEntry
  <2> QED BY <1>1, <2>1, <2>3, <2>4
<1>3. MadeOK'
  <2>1. /\ made'[c] = made[c] \cup {fname[c]}
        /\ \A o \in Client \ {c} : made'[o] = made[o] /\ fname[c] \notin made[o]
    BY <1>1 DEF NewPut, SInv, TInv, TypeOK, PhaseOK
  <2> QED BY <1>2, <2>1 DEF SInv, MadeOK
<1>4. Match(BlksIn(dir))'
  BY <1>1, <1>2, RfsAssumption DEF PhaseOK, Match, Used, HasBlock, NewPut
<1> QED BY <1>1, <1>2, <1>3, <1>4, LeaveSafe DEF NewPut

LEMMA DelBlkSafe == ASSUME SInv, TInv', NEW c \in Client, DelBlk(c) PROVE SInv'
<1>1. Inside(c) /\ PhaseOK(c) /\ pc[c] = "del_blk" /\ Used(c) = BlksIn(dir)
  BY Others DEF DelBlk, At, Inside, Used, HasBlock
<1>2. CASE PutDir(c) /\ Leave(c)
  BY <1>1, <1>2, PutBack, LookedSafe DEF DelBlk
<1>3. CASE /\ Found(dirbuf[c], fname[c]) # {} /\ GetBitmap(c) /\ Goto(c, "del_bmp")
           /\ UNCHANGED <<dir, fname, dirbuf, fblk>>
  <2>1. pc'[c] = "del_bmp" /\ bmpbuf'[c] = bitmap
    BY <1>3 DEF Goto, GetBitmap, SInv, TInv, TypeOK
  <2>2. PhaseOK(c)'
    BY <1>1, <1>3, <2>1 DEF PhaseOK, DelBlk, hist, HasBlock, Used, Match, Searched
  <2> QED BY <1>1, <1>3, <2>2, GoOnSafe DEF DelBlk, Pcs
<1> QED BY <1>2, <1>3 DEF DelBlk

LEMMA DelBmpSafe == ASSUME SInv, TInv', NEW c \in Client, DelBmp(c) PROVE SInv'
<1>1. /\ Inside(c) /\ PhaseOK(c) /\ pc[c] = "del_bmp" /\ Used(c) = BlksIn(dir)
      /\ bmpbuf[c] = bitmap /\ dirbuf[c] = dir /\ Found(dir, fname[c]) # {}
  BY Others DEF DelBmp, At, Inside, Used, HasBlock, PhaseOK
<1>2. pc'[c] = "del_put" /\ bitmap' = bitmap \ BlksOf(dir, fname[c])
  <2>1. PICK i \in First(Found(dir, fname[c])) : bitmap' = bitmap \ {dir[i].rdr_blknr}
    BY <1>1 DEF DelBmp
  <2>2. i \in Found(dir, fname[c])
    BY <2>1 DEF First
  <2>3. BlksOf(dir, fname[c]) = {dir[i].rdr_blknr}
    BY <2>2, FoundOne DEF SInv
  <2> QED BY <2>1, <2>3 DEF DelBmp, Goto, SInv, TInv, TypeOK
<1>3. PhaseOK(c)'
  <2>1. Used(c)' = BlksIn(dir) \ BlksOf(dir, fname[c])
    BY <1>2 DEF Used, HasBlock, DelBmp, local
  <2>2. Match(Used(c))'
    <3>1. BlksOf(dir, fname[c]) \subseteq BlksIn(dir)
      BY DEF BlksOf, BlksIn, Found
    <3>2. bitmap = BlksIn(dir) \cup lost /\ BlksIn(dir) \cap lost = {}
      BY <1>1 DEF PhaseOK, Match
    <3> QED BY <1>2, <2>1, <3>1, <3>2 DEF Match, DelBmp, hist
  <2> QED BY <1>1, <1>2, <2>2 DEF PhaseOK, DelBmp, local, hist, HasBlock, Searched
<1> QED BY <1>1, <1>3, GoOnSafe DEF DelBmp, Pcs

LEMMA DelPutSafe == ASSUME SInv, TInv', NEW c \in Client, DelPut(c) PROVE SInv'
<1>1. /\ Inside(c) /\ PhaseOK(c) /\ pc[c] = "del_put"
      /\ dir' = WithoutFile(dir, fname[c]) /\ dir \in Seq(Entry \cup {NULL})
  BY Others DEF DelPut, At, Inside, PhaseOK, SInv, TInv, TypeOK
<1>2. /\ UniqueIn(dir)' /\ BlksIn(dir)' = BlksIn(dir) \ BlksOf(dir, fname[c])
      /\ Found(dir', fname[c]) = {} /\ \A n : n # fname[c] => Found(dir', n) = Found(dir, n)
      /\ Len(dir') = Len(dir)
  BY <1>1, WithoutDir, WithoutFileSeq DEF SInv
<1>3. MadeOK'
  <2>1. /\ made'[c] = made[c] \ {fname[c]}
        /\ \A o \in Client \ {c} : made'[o] = made[o] /\ fname[c] \notin made[o]
    BY <1>1 DEF DelPut, SInv, TInv, TypeOK, PhaseOK
  <2> QED BY <1>2, <2>1 DEF SInv, MadeOK
<1>4. Match(BlksIn(dir))'
  BY <1>1, <1>2 DEF PhaseOK, Match, Used, HasBlock, DelPut
<1> QED BY <1>1, <1>2, <1>3, <1>4, LeaveSafe DEF DelPut

LEMMA OpBlkSafe == ASSUME SInv, TInv', NEW c \in Client, OpBlk(c) PROVE SInv'
<1>1. Inside(c) /\ PhaseOK(c) /\ pc[c] = "op_blk" /\ pc'[c] = "op_put"
  BY Others DEF OpBlk, At, Inside, Goto, SInv, TInv, TypeOK
<1>2. PhaseOK(c)'
  BY <1>1 DEF PhaseOK, OpBlk, disk, local, hist, HasBlock, Used, Match, Searched
<1> QED BY <1>1, <1>2, GoOnSafe DEF OpBlk, disk, Pcs

LEMMA OpPutSafe == ASSUME SInv, TInv', NEW c \in Client, OpPut(c) PROVE SInv'
<1>1. Inside(c) /\ UNCHANGED dir /\ Used(c) = BlksIn(dir)
  BY PutBack DEF OpPut, At, Inside, Used, HasBlock
<1> QED BY <1>1, LookedSafe DEF OpPut

(* Writing and closing change the block of the open file only. *)
LEMMA SaveSafe ==
  ASSUME SInv, TInv', NEW c \in Client, WriteFile(c) \/ CloseFile(c), \A o \in Client : ~Inside(o)
  PROVE  SInv'
<1>1. UniqueIn(dir)' /\ MadeOK' /\ Match(BlksIn(dir))' /\ \A o \in Client : pc'[o] = pc[o]
  BY DEF WriteFile, CloseFile, SInv, MadeOK, Match, hist
<1> QED BY <1>1, StepSafe DEF Inside

(* Client c enters the driver: it begins an operation, or does a whole one. *)
Enters(c) ==
  \/ \E n \in Name : NewFile(c, n) \/ DelFile(c, n) \/ OpenFile(c, n)
  \/ WriteFile(c) \/ CloseFile(c)
(* A client enters while one is inside. *)
Overlaps == \E c \in Client : Enters(c) /\ \E o \in Client : Inside(o)

LEMMA NextSafe == ASSUME SInv, [Next]_vars, ~Overlaps \/ UNCHANGED vars PROVE SInv'
<1>0. TInv'
  BY NextTypes DEF SInv
<1>1. CASE UNCHANGED vars
  BY <1>0, <1>1 DEF vars, disk, local, hist, SInv, Alone, MadeOK, PhaseOK, Inside, HasBlock, Used, Match
<1>2. ASSUME NEW c \in Client, Enters(c), ~Overlaps PROVE SInv'
  <2>1. \A o \in Client : ~Inside(o) /\ pc[o] = "out"
    BY <1>2 DEF Overlaps, Inside
  <2>2. ASSUME NEW n \in Name, NewFile(c, n) \/ DelFile(c, n) \/ OpenFile(c, n) PROVE SInv'
    BY <1>0, <2>1, <2>2, EnterSafe DEF NewFile, DelFile, OpenFile
  <2> QED BY <1>0, <1>2, <2>1, <2>2, SaveSafe DEF Enters
<1>3. ASSUME NEW c \in Client,
             \/ NewChk(c) \/ NewBlk(c) \/ NewBmp(c) \/ NewDir(c) \/ NewFileBlk(c) \/ NewPut(c)
             \/ DelBlk(c) \/ DelBmp(c) \/ DelPut(c) \/ OpBlk(c) \/ OpPut(c)
      PROVE  SInv'
  BY <1>0, <1>3, NewChkSafe, NewBlkSafe, NewBmpSafe, NewDirSafe, NewFileBlkSafe, NewPutSafe,
     DelBlkSafe, DelBmpSafe, DelPutSafe, OpBlkSafe, OpPutSafe
<1>4. ASSUME NEW c \in Client, NewBlkNoMem(c) \/ NewDirNoMem(c) PROVE SInv'
  BY <1>0, <1>4, NoMemSafe
<1>5. ASSUME NEW c \in Client, Die(c) PROVE SInv'
  BY <1>0, <1>5, DieSafe
<1> QED BY <1>1, <1>2, <1>3, <1>4, <1>5, NextIs DEF Enters

-----------------------------------------------------------------------------
(* Until two clients are in the driver. *)

(* History variable: has a client entered the driver while one was inside? *)
VARIABLE overlapped

varsH == <<vars, overlapped>>
InitH == Init /\ overlapped = FALSE
NextH == Next /\ overlapped' = (overlapped \/ Overlaps)
SpecH == InitH /\ [][NextH]_varsH

LEMMA SafeUntilOverlap ==
  SpecH => /\ Spec
           /\ [](overlapped \/ SInv)
<1>1. InitH => Init /\ SInv
  BY InitSafe DEF InitH
<1>2. [NextH]_varsH => [Next]_vars
  BY DEF NextH, varsH
<1>3. (overlapped \/ SInv) /\ [NextH]_varsH => (overlapped \/ SInv)'
  <2> SUFFICES ASSUME overlapped \/ SInv, [NextH]_varsH, ~overlapped' PROVE SInv'
    OBVIOUS
  <2>1. ~overlapped
    BY DEF NextH, varsH
  <2>2. CASE NextH
    <3>1. Next /\ ~Overlaps
      BY <2>2 DEF NextH
    <3> QED BY <2>1, <3>1, NextSafe
  <2>3. CASE UNCHANGED varsH
    <3>1. UNCHANGED vars
      BY <2>3 DEF varsH
    <3> QED BY <2>1, <3>1, NextSafe
  <2> QED BY <2>2, <2>3
<1> QED BY <1>1, <1>2, <1>3, PTL DEF SpecH, Spec

(* Nothing but a client that enters the driver while another one is inside *)
(* makes bitmap and directory differ: until then, with buffers refused at  *)
(* any point, no two files share a block, and a block is in use if and     *)
(* only if it is that of a file, of a creation or deletion under way, or   *)
(* of a creation that failed behind rfs_new_blk.                           *)
THEOREM Agreement ==
  SpecH => [](overlapped \/ DirMatchesBitmap)
<1>1. ASSUME SInv PROVE DirMatchesBitmap
  <2> USE <1>1
  <2>1. Live = {i \in DOMAIN dir : dir[i] # NULL}
    BY DEF Live
  <2>2. \A i, j \in Live : i # j => /\ dir[i].rdr_name # dir[j].rdr_name
                                    /\ dir[i].rdr_blknr # dir[j].rdr_blknr
    BY <2>1 DEF SInv, UniqueIn
  <2>3. Match((BlksIn(dir) \ Given) \cup Taken)
    <3>1. CASE \A c \in Client : ~Inside(c)
      <4>1. Given = {} /\ Taken = {}
        BY <3>1 DEF Given, Taken, Inside
      <4> QED BY <3>1, <4>1 DEF SInv
    <3>2. ASSUME NEW c \in Client, Inside(c) PROVE Match((BlksIn(dir) \ Given) \cup Taken)
      <4>1. PhaseOK(c) /\ \A o \in Client \ {c} : pc[o] = "out"
        BY <3>2, Others DEF Inside
      <4>2. Taken = IF HasBlock(c) THEN {fblk[c]} ELSE {}
        BY <4>1 DEF Taken, HasBlock
      <4>3. Given = IF pc[c] = "del_put" THEN BlksOf(dir, fname[c]) ELSE {}
        BY <4>1, <2>1 DEF Given, BlksOf, Found
      <4>4. (BlksIn(dir) \ Given) \cup Taken = Used(c)
        BY <4>2, <4>3 DEF Used, HasBlock
      <4> QED BY <4>1, <4>4 DEF PhaseOK
    <3> QED BY <3>1, <3>2
  <2> QED BY <2>1, <2>2, <2>3 DEF DirMatchesBitmap, Match, BlksIn
<1> QED BY <1>1, SafeUntilOverlap, PTL

(* A file that was created is found until it is deleted, or a client has   *)
(* entered the driver while another one was inside: nothing but the race   *)
(* of two clients loses files.                                             *)
THEOREM CreatedStays ==
  SpecH => [](overlapped \/ CreatedIsThere)
<1>1. SInv => CreatedIsThere
  BY DEF SInv, MadeOK, CreatedIsThere, TInv, TypeOK
<1> QED BY <1>1, SafeUntilOverlap, PTL

-----------------------------------------------------------------------------
(* Rfs implements Files. *)

ContentsIn(q, b, n) ==
  IF Found(q, n) = {} THEN NULL ELSE b[q[CHOOSE i \in First(Found(q, n)) : TRUE].rdr_blknr]

FileMap == [n \in Name |-> Contents(n)]
OpenMap == [c \in Client |-> OpenFileOf(c)]

HandleIn(q, f) ==
  LET there == {i \in DOMAIN q : q[i] # NULL}
  IN  IF \A i \in there : ~(f # NULL /\ q[i].rdr_blknr = f.fmd_sfblk) THEN NULL
      ELSE q[CHOOSE i \in there : f # NULL /\ q[i].rdr_blknr = f.fmd_sfblk].rdr_name

LEMMA ContentsAre ==
  /\ \A n : Contents(n) = ContentsIn(dir, blk, n)
  /\ \A n : Contents(n)' = ContentsIn(dir', blk', n)
BY DEF Contents, ContentsIn

LEMMA HandlesAre ==
  ASSUME NEW c \in Client
  PROVE  HandleOf(c) = HandleIn(dir, finode[c]) /\ HandleOf(c)' = HandleIn(dir', finode'[c])
BY DEF HandleOf, HandleIn, HasBlockOf, Live

LEMMA ContentsInFound ==
  ASSUME NEW q \in Seq(Entry \cup {NULL}), NEW b, NEW n, UniqueIn(q)
  PROVE  /\ Found(q, n) = {} => ContentsIn(q, b, n) = NULL
         /\ \A i \in Found(q, n) : ContentsIn(q, b, n) = b[q[i].rdr_blknr]
<1>1. ASSUME NEW i \in Found(q, n) PROVE ContentsIn(q, b, n) = b[q[i].rdr_blknr]
  <2>1. First(Found(q, n)) = {i}
    BY <1>1, FoundOne, FirstFound
  <2>2. (CHOOSE j \in First(Found(q, n)) : TRUE) = i
    BY <2>1
  <2> QED BY <1>1, <2>2 DEF ContentsIn
<1> QED BY <1>1 DEF ContentsIn

(* A handle is on the file whose block it has, and on no other one. *)
Has(q, f, n) == f # NULL /\ f.fmd_sfblk \in BlksOf(q, n)
LEMMA HandleIs ==
  ASSUME NEW q \in Seq(Entry \cup {NULL}), NEW f, UniqueIn(q)
  PROVE  /\ HandleIn(q, f) \in Name \cup {NULL}
         /\ \A n \in Name : HandleIn(q, f) = n <=> Has(q, f, n)
<1> DEFINE there == {i \in DOMAIN q : q[i] # NULL}
           P(i)  == f # NULL /\ q[i].rdr_blknr = f.fmd_sfblk
<1>1. \A i \in there : q[i] \in Entry /\ q[i].rdr_name \in Name /\ i \in Found(q, q[i].rdr_name)
  BY ElementOfSeq, LenProperties DEF Entry, Found
<1>2. CASE \A i \in there : ~P(i)
  <2>1. HandleIn(q, f) = NULL
    BY <1>2 DEF HandleIn
  <2>2. ASSUME NEW n \in Name PROVE ~Has(q, f, n)
    BY <1>2 DEF Has, BlksOf, Found
  <2> QED BY <2>1, <2>2, RfsAssumption
<1>3. CASE ~\A i \in there : ~P(i)
  <2>1. PICK i \in there : P(i) /\ HandleIn(q, f) = q[i].rdr_name
    BY <1>3 DEF HandleIn
  <2>2. ASSUME NEW n \in Name PROVE q[i].rdr_name = n <=> Has(q, f, n)
    <3>1. ASSUME q[i].rdr_name = n PROVE Has(q, f, n)
      BY <2>1, <3>1 DEF Has, BlksOf, Found
    <3>2. ASSUME Has(q, f, n) PROVE q[i].rdr_name = n
      <4>1. PICK j \in Found(q, n) : q[j].rdr_blknr = f.fmd_sfblk
        BY <3>2 DEF Has, BlksOf
      <4>2. i = j
        BY <2>1, <4>1 DEF UniqueIn, Found
      <4> QED BY <4>2 DEF Found
    <3> QED BY <3>1, <3>2
  <2> QED BY <1>1, <2>1, <2>2
<1> QED BY <1>2, <1>3

LEMMA HandleNow ==
  ASSUME SInv, NEW c \in Client
  PROVE  /\ HandleOf(c) \in Name \cup {NULL}
         /\ \A n \in Name : HandleOf(c) = n <=> Has(dir, finode[c], n)
<1>1. dir \in Seq(Entry \cup {NULL}) /\ UniqueIn(dir)
  BY DEF SInv, TInv, TypeOK
<1> QED BY <1>1, HandleIs, HandlesAre

LEMMA HandleNext ==
  ASSUME SInv', NEW c \in Client
  PROVE  /\ HandleOf(c)' \in Name \cup {NULL}
         /\ \A n \in Name : HandleOf(c)' = n <=> Has(dir', finode'[c], n)
<1>1. dir' \in Seq(Entry \cup {NULL}) /\ UniqueIn(dir')
  BY DEF SInv, TInv, TypeOK
<1> QED BY <1>1, HandleIs, HandlesAre

(* A handle that has the block of the same files is on the same file. *)
LEMMA HandleKept ==
  ASSUME SInv, SInv', NEW c \in Client,
         \A n \in Name : Has(dir', finode'[c], n) <=> Has(dir, finode[c], n)
  PROVE  HandleOf(c)' = HandleOf(c)
BY HandleNow, HandleNext, RfsAssumption

(* The block behind a file that is there, and its contents *)
LEMMA FileIs ==
  ASSUME SInv, NEW n, NEW i \in Found(dir, n)
  PROVE  /\ i \in DOMAIN dir /\ dir[i] # NULL /\ dir[i] \in Entry
         /\ dir[i].rdr_blknr \in Block /\ dir[i].rdr_blknr \in BlksIn(dir)
         /\ blk[dir[i].rdr_blknr] \in Seq(Name)
         /\ Contents(n) = blk[dir[i].rdr_blknr]
         /\ Found(dir, n) = {i}
<1>1. i \in DOMAIN dir /\ dir[i] # NULL /\ dir \in Seq(Entry \cup {NULL}) /\ UniqueIn(dir)
  BY DEF Found, SInv, TInv, TypeOK
<1>2. dir[i] \in Entry
  BY <1>1, ElementOfSeq, LenProperties
<1>3. dir[i].rdr_blknr \in Block /\ dir[i].rdr_blknr \in BlksIn(dir)
  BY <1>1, <1>2 DEF Entry, BlksIn
<1>4. blk[dir[i].rdr_blknr] \in Seq(Name)
  BY <1>1, <1>3 DEF SInv, TInv, TypeOK, Written
<1>5. Contents(n) = blk[dir[i].rdr_blknr]
  BY <1>1, ContentsInFound, ContentsAre
<1> QED BY <1>1, <1>2, <1>3, <1>4, <1>5, FoundOne

LEMMA NoFileIs == ASSUME NEW n, Found(dir, n) = {} PROVE Contents(n) = NULL
BY DEF Contents

LEMMA NextFileIs ==
  ASSUME SInv', NEW n, NEW i \in Found(dir', n)
  PROVE  Contents(n)' = blk'[dir'[i].rdr_blknr]
<1>1. dir' \in Seq(Entry \cup {NULL}) /\ UniqueIn(dir')
  BY DEF SInv, TInv, TypeOK
<1> QED BY <1>1, ContentsInFound, ContentsAre

(* A file whose entry and block stay is the same file. *)
LEMMA KeptFile ==
  ASSUME SInv, SInv', NEW n, Found(dir', n) = Found(dir, n),
         \A i \in Found(dir, n) : dir'[i] = dir[i] /\ blk'[dir[i].rdr_blknr] = blk[dir[i].rdr_blknr]
  PROVE  Contents(n)' = Contents(n)
<1>1. Contents(n)' = ContentsIn(dir', blk', n)
  BY ContentsAre
<1>2. dir' \in Seq(Entry \cup {NULL}) /\ UniqueIn(dir')
  BY DEF SInv, TInv, TypeOK
<1>3. CASE Found(dir, n) = {}
  BY <1>1, <1>2, <1>3, ContentsInFound, NoFileIs
<1>4. ASSUME NEW i \in Found(dir, n) PROVE Contents(n)' = Contents(n)
  <2>1. ContentsIn(dir', blk', n) = blk'[dir'[i].rdr_blknr]
    BY <1>2, ContentsInFound
  <2>2. Contents(n) = blk[dir[i].rdr_blknr]
    BY FileIs
  <2> QED BY <1>1, <2>1, <2>2
<1> QED BY <1>3, <1>4

(* A step that changes neither directory nor blocks nor handles *)
LEMMA LookStep == ASSUME UNCHANGED <<dir, blk, finode>> PROVE UNCHANGED F!vars
<1>1. \A n \in Name : Contents(n)' = Contents(n)
  BY DEF Contents
<1>2. \A c \in Client : OpenFileOf(c)' = OpenFileOf(c)
  BY DEF OpenFileOf
<1>3. \A c \in Client : HandleOf(c)' = HandleOf(c)
  BY HandlesAre
<1> QED BY <1>1, <1>2, <1>3 DEF F!vars

LEMMA LookFiles ==
  ASSUME SInv, NEW c \in Client,
         \/ \E n \in Name : NewFile(c, n) \/ DelFile(c, n) \/ OpenFile(c, n)
         \/ NewChk(c) \/ NewBlk(c) \/ NewBmp(c) \/ NewDir(c) \/ NewBlkNoMem(c) \/ NewDirNoMem(c)
         \/ DelBlk(c) \/ DelBmp(c) \/ OpPut(c)
  PROVE  UNCHANGED F!vars
<1>1. PutDir(c) /\ Inside(c) => UNCHANGED dir
  BY PutBack
<1>2. UNCHANGED <<dir, blk, finode>>
  BY <1>1 DEF NewFile, DelFile, OpenFile, NewChk, NewBlk, NewBmp, NewDir, NewBlkNoMem, NewDirNoMem,
              DelBlk, DelBmp, OpPut, At, Inside, disk
<1> QED BY <1>2, LookStep

(* The block of a new file is that of no other one. *)
LEMMA NewFileBlkFiles ==
  ASSUME SInv, SInv', NEW c \in Client, NewFileBlk(c)
  PROVE  UNCHANGED F!vars
<1>1. /\ Inside(c) /\ fblk[c] \notin BlksIn(dir) /\ UNCHANGED <<dir, finode>>
  BY Others, PutBack DEF NewFileBlk, At, Inside, PhaseOK, HasBlock
<1>2. \A b \in Block \cap BlksIn(dir) : blk'[b] = blk[b]
  BY <1>1 DEF NewFileBlk, SInv, TInv, TypeOK
<1>3. ASSUME NEW n \in Name PROVE Contents(n)' = Contents(n)
  BY <1>1, <1>2, FileIs, KeptFile
<1>4. \A o \in Client : OpenFileOf(o)' = OpenFileOf(o) /\ HandleOf(o)' = HandleOf(o)
  BY <1>1, HandlesAre DEF OpenFileOf
<1> QED BY <1>3, <1>4 DEF F!vars

(* The entry makes the file.  The handles that have its block were on no   *)
(* file: they outlived the file that had it before.                        *)
LEMMA NewPutFiles ==
  ASSUME SInv, SInv', NEW c \in Client, NewPut(c)
  PROVE  F!Next
<1> DEFINE e == [rdr_name |-> fname[c], rdr_blknr |-> fblk[c]]
<1>1. /\ Inside(c)
      /\ pc[c] = "new_put" /\ Found(dir, fname[c]) = {} /\ fblk[c] \notin BlksIn(dir)
      /\ blk[fblk[c]] = << >> /\ dirbuf[c] = dir /\ fname[c] \in Name /\ fblk[c] \in Block
      /\ dir \in Seq(Entry \cup {NULL}) /\ UniqueIn(dir)
  BY Others DEF NewPut, At, Inside, PhaseOK, HasBlock, Searched, SInv, TInv, TypeOK, BlksOK, NamesOK
<1>2. e \in Entry /\ e.rdr_name = fname[c] /\ e.rdr_blknr = fblk[c]
  BY <1>1 DEF Entry
<1>3. dir' = Append(dir, e) /\ UNCHANGED <<blk, finode>>
  BY <1>1 DEF NewPut
<1>4. /\ Found(dir', fname[c]) = {Len(dir) + 1}
      /\ \A n : n # fname[c] => Found(dir', n) = Found(dir, n)
      /\ \A i \in DOMAIN dir : dir'[i] = dir[i]
      /\ dir'[Len(dir) + 1].rdr_blknr = fblk[c]
  <2> HIDE DEF e
  <2>1. /\ Found(Append(dir, e), fname[c]) = {Len(dir) + 1}
        /\ \A n : n # fname[c] => Found(Append(dir, e), n) = Found(dir, n)
        /\ \A i \in DOMAIN dir : Append(dir, e)[i] = dir[i]
        /\ Append(dir, e)[Len(dir) + 1] = e
    <3>1. dir \in Seq(Entry \cup {NULL}) /\ e \in Entry /\ UniqueIn(dir)
      BY <1>1, <1>2
    <3>2. Found(dir, e.rdr_name) = {} /\ e.rdr_blknr \notin BlksIn(dir)
      BY <1>1, <1>2
    <3> QED BY <1>2, <3>1, <3>2, AppendDir
  <2> QED BY <1>2, <1>3, <2>1
<1> HIDE DEF e
<1>5. PICK n \in Name : n = fname[c]
  BY <1>1
<1>6. Contents(n) = NULL /\ Contents(n)' = << >>
  <2>1. Contents(n) = NULL
    BY <1>1, <1>5, NoFileIs
  <2>2. Contents(n)' = blk'[dir'[Len(dir) + 1].rdr_blknr]
    BY <1>4, <1>5, NextFileIs
  <2> QED BY <1>1, <1>3, <1>4, <2>1, <2>2
<1>7. ASSUME NEW m \in Name \ {n} PROVE Contents(m)' = Contents(m)
  BY <1>3, <1>4, <1>5, KeptFile DEF Found
<1>8. /\ BlksOf(dir, n) = {} /\ BlksOf(dir', n) = {fblk[c]}
      /\ \A m : m # n => BlksOf(dir', m) = BlksOf(dir, m)
      /\ \A m : fblk[c] \notin BlksOf(dir, m)
  <2>1. BlksOf(dir, n) = {} /\ BlksOf(dir', n) = {fblk[c]}
    BY <1>1, <1>4, <1>5 DEF BlksOf
  <2>2. ASSUME NEW m, m # n PROVE BlksOf(dir', m) = BlksOf(dir, m)
    <3>1. Found(dir', m) = Found(dir, m) /\ \A i \in Found(dir, m) : dir'[i] = dir[i]
      BY <1>4, <1>5, <2>2 DEF Found
    <3> QED BY <3>1 DEF BlksOf
  <2>3. \A m : BlksOf(dir, m) \subseteq BlksIn(dir)
    BY DEF BlksOf, BlksIn, Found
  <2> QED BY <1>1, <2>1, <2>2, <2>3
<1> DEFINE left == {o \in Client : finode[o] # NULL /\ finode[o].fmd_sfblk = fblk[c]}
<1>9. ASSUME NEW o \in left PROVE HandleOf(o) = NULL /\ HandleOf(o)' = n /\ OpenFileOf(o) # NULL
  <2>1. HandleOf(o) = NULL
    BY <1>8, HandleNow DEF Has
  <2>2. HandleOf(o)' = n
    BY <1>3, <1>8, HandleNext DEF Has
  <2>3. finode[o] \in Buffer
    BY DEF SInv, TInv, TypeOK
  <2>4. <<finode[o].fname, finode[o].data>> \in Name \X Seq(Name)
    BY <2>3 DEF Buffer
  <2> QED BY <2>1, <2>2, <2>4, RfsAssumption DEF OpenFileOf
<1>10. ASSUME NEW o \in Client \ left PROVE HandleOf(o)' = HandleOf(o)
  <2>1. ASSUME NEW m \in Name PROVE Has(dir', finode'[o], m) <=> Has(dir, finode[o], m)
    BY <1>3, <1>8 DEF Has
  <2> QED BY <2>1, HandleKept
<1>11. F!Create(n)
  <2>1. left \in SUBSET {o \in Client : OpenFileOf(o) # NULL /\ HandleOf(o) = NULL}
    BY <1>9
  <2>2. \A o \in Client : HandleOf(o)' = IF o \in left THEN n ELSE HandleOf(o)
    BY <1>9, <1>10
  <2>3. \A o \in Client : OpenFileOf(o)' = OpenFileOf(o)
    BY <1>3 DEF OpenFileOf
  <2> HIDE DEF left
  <2> QED BY <1>6, <1>7, <2>1, <2>2, <2>3 DEF F!Create
<1> QED BY <1>11 DEF F!Next

(* The entry goes with the file, and the handles on it are on no file. *)
LEMMA DelPutFiles ==
  ASSUME SInv, SInv', NEW c \in Client, DelPut(c)
  PROVE  F!Next
<1>1. /\ Inside(c)
      /\ pc[c] = "del_put" /\ Found(dir, fname[c]) # {} /\ dirbuf[c] = dir /\ fname[c] \in Name
      /\ dir \in Seq(Entry \cup {NULL}) /\ UniqueIn(dir)
  BY Others DEF DelPut, At, Inside, PhaseOK, SInv, TInv, TypeOK, NamesOK
<1>2. PICK n \in Name : n = fname[c]
  BY <1>1
<1>3. dir' = WithoutFile(dir, n) /\ UNCHANGED <<blk, finode>>
  BY <1>1, <1>2 DEF DelPut
<1>4. /\ Found(dir', n) = {}
      /\ \A m : m # n => Found(dir', m) = Found(dir, m) /\ \A i \in Found(dir, m) : dir'[i] = dir[i]
  <2>1. /\ Found(dir', n) = {}
        /\ \A m : m # n => Found(dir', m) = Found(dir, m)
        /\ \A i \in DOMAIN dir : i \notin Found(dir, n) => dir'[i] = dir[i]
    BY <1>1, <1>3, WithoutDir
  <2> QED BY <2>1 DEF Found
<1>5. Contents(n) # NULL
  <2>1. PICK i \in Found(dir, n) : TRUE
    BY <1>1, <1>2
  <2> QED BY <2>1, FileIs, RfsAssumption
<1>6. Contents(n)' = NULL
  BY <1>4, ContentsAre DEF ContentsIn
<1>7. ASSUME NEW m \in Name \ {n} PROVE Contents(m)' = Contents(m)
  BY <1>3, <1>4, KeptFile
<1>8. BlksOf(dir', n) = {} /\ \A m : m # n => BlksOf(dir', m) = BlksOf(dir, m)
  BY <1>4 DEF BlksOf
<1>9. ASSUME NEW o \in Client PROVE HandleOf(o)' = IF HandleOf(o) = n THEN NULL ELSE HandleOf(o)
  <2>1. CASE HandleOf(o) = n
    <3>1. Has(dir, finode[o], n)
      BY <2>1, HandleNow
    <3>2. ASSUME NEW m \in Name \ {n} PROVE ~Has(dir, finode[o], m)
      BY <2>1, HandleNow
    <3>3. \A m \in Name : ~Has(dir', finode'[o], m)
      BY <1>3, <1>8, <3>2 DEF Has
    <3> QED BY <2>1, <3>3, HandleNext
  <2>2. CASE HandleOf(o) # n
    <3>1. ~Has(dir, finode[o], n)
      BY <2>2, HandleNow
    <3>2. ASSUME NEW m \in Name PROVE Has(dir', finode'[o], m) <=> Has(dir, finode[o], m)
      BY <1>3, <1>8, <3>1 DEF Has
    <3> QED BY <2>2, <3>2, HandleKept
  <2> QED BY <2>1, <2>2
<1>10. F!Delete(n)
  <2>1. \A o \in Client : OpenFileOf(o)' = OpenFileOf(o)
    BY <1>3 DEF OpenFileOf
  <2>2. FileMap[n] # NULL /\ FileMap' = [FileMap EXCEPT ![n] = NULL]
    <3>1. FileMap' = [m \in Name |-> IF m = n THEN NULL ELSE FileMap[m]]
      BY <1>6, <1>7 DEF FileMap
    <3>2. DOMAIN FileMap = Name /\ FileMap[n] = Contents(n)
      BY DEF FileMap
    <3> QED BY <1>5, <3>1, <3>2
  <2> QED BY <1>9, <2>1, <2>2 DEF F!Delete, FileMap
<1> QED BY <1>10 DEF F!Next

(* Opening finds what the block holds, or nothing. *)
LEMMA OpBlkFiles ==
  ASSUME SInv, SInv', NEW c \in Client, OpBlk(c)
  PROVE  F!Next \/ UNCHANGED F!vars
<1>1. /\ dirbuf[c] = dir /\ fname[c] \in Name /\ finode[c] = NULL
      /\ UNCHANGED <<dir, blk>>
  BY Others DEF OpBlk, At, Inside, PhaseOK, SInv, TInv, NamesOK, disk
<1>2. CASE UNCHANGED finode
  BY <1>1, <1>2, LookStep
<1>3. ASSUME NEW i \in First(Found(dir, fname[c])),
             finode' = [finode EXCEPT ![c] = [fname |-> fname[c], fmd_sfblk |-> dir[i].rdr_blknr,
                                              data |-> blk[dir[i].rdr_blknr]]]
      PROVE  F!Next
  <2>1. PICK n \in Name : n = fname[c]
    BY <1>1
  <2>2. i \in Found(dir, n)
    BY <1>3, <2>1 DEF First
  <2>3. /\ Contents(n) = blk[dir[i].rdr_blknr] /\ Contents(n) \in Seq(Name)
        /\ dir[i].rdr_blknr \in Block
    BY <2>2, FileIs
  <2> DEFINE f == [fname |-> n, fmd_sfblk |-> dir[i].rdr_blknr, data |-> blk[dir[i].rdr_blknr]]
  <2>4. f # NULL
    BY <2>3, RfsAssumption DEF Buffer
  <2>5. finode'[c] = f /\ \A o \in Client \ {c} : finode'[o] = finode[o]
    BY <1>3, <2>1 DEF SInv, TInv, TypeOK
  <2>6. f.fname = n /\ f.fmd_sfblk = dir[i].rdr_blknr /\ f.data = Contents(n)
    BY <2>3
  <2> HIDE DEF f
  <2>7. /\ OpenFileOf(c) = NULL /\ OpenFileOf(c)' = <<n, Contents(n)>>
        /\ \A o \in Client \ {c} : OpenFileOf(o)' = OpenFileOf(o)
    BY <1>1, <2>4, <2>5, <2>6 DEF OpenFileOf
  <2>8. HandleOf(c)' = n /\ \A o \in Client \ {c} : HandleOf(o)' = HandleOf(o)
    <3>1. Has(dir', finode'[c], n)
      BY <1>1, <2>2, <2>4, <2>5, <2>6 DEF Has, BlksOf
    <3>2. HandleOf(c)' = n
      BY <3>1, HandleNext
    <3> QED BY <1>1, <2>5, <3>2, HandlesAre
  <2>9. \A m \in Name : Contents(m)' = Contents(m)
    BY <1>1 DEF Contents
  <2>10. Contents(n) # NULL
    BY <2>3, RfsAssumption
  <2>11. F!Open(c, n)
    BY <2>7, <2>8, <2>9, <2>10 DEF F!Open
  <2> QED BY <2>11 DEF F!Next
<1> QED BY <1>1, <1>2, <1>3 DEF OpBlk

(* What is saved goes to the file that the handle is on, if there is one. *)
LEMMA SaveFiles ==
  ASSUME SInv, SInv', NEW c \in Client, finode[c] # NULL, NEW data,
         blk' = [blk EXCEPT ![finode[c].fmd_sfblk] = data], UNCHANGED dir,
         NEW m \in Name
  PROVE  Contents(m)' = IF HandleOf(c) = m THEN data ELSE Contents(m)
<1>1. HandleOf(c) = m <=> finode[c].fmd_sfblk \in BlksOf(dir, m)
  BY HandleNow DEF Has
<1>2. CASE Found(dir, m) = {}
  <2>1. BlksOf(dir, m) = {}
    BY <1>2 DEF BlksOf
  <2> QED BY <1>1, <1>2, <2>1 DEF Contents
<1>3. ASSUME NEW i \in Found(dir, m)
      PROVE  Contents(m)' = IF HandleOf(c) = m THEN data ELSE Contents(m)
  <2>1. /\ dir[i].rdr_blknr \in Block /\ Contents(m) = blk[dir[i].rdr_blknr]
        /\ BlksOf(dir, m) = {dir[i].rdr_blknr}
    BY FileIs, FoundOne DEF SInv
  <2>2. Contents(m)' = blk'[dir[i].rdr_blknr]
    BY NextFileIs
  <2> QED BY <1>1, <2>1, <2>2 DEF SInv, TInv, TypeOK
<1> QED BY <1>2, <1>3

LEMMA OpenIs ==
  ASSUME SInv, NEW c \in Client, finode[c] # NULL
  PROVE  /\ finode[c] \in Buffer /\ finode[c].fname \in Name /\ finode[c].data \in Seq(Name)
         /\ OpenFileOf(c) = <<finode[c].fname, finode[c].data>> /\ OpenFileOf(c) # NULL
<1>1. finode[c] \in Buffer /\ finode[c].fname \in Name /\ finode[c].data \in Seq(Name)
  BY DEF SInv, TInv, TypeOK, Buffer
<1>2. <<finode[c].fname, finode[c].data>> \in Name \X Seq(Name)
  BY <1>1
<1> QED BY <1>1, <1>2, RfsAssumption DEF OpenFileOf

LEMMA WriteFileFiles ==
  ASSUME SInv, SInv', NEW c \in Client, WriteFile(c)
  PROVE  F!Next
<1>1. finode[c] # NULL
  BY DEF WriteFile
<1>2. PICK n \in Name : n = finode[c].fname
  BY <1>1, OpenIs
<1>3. PICK data \in Seq(Name) : data = Append(finode[c].data, n)
  BY <1>1, <1>2, OpenIs, AppendProperties
<1>4. /\ blk' = [blk EXCEPT ![finode[c].fmd_sfblk] = data]
      /\ finode' = [finode EXCEPT ![c].data = data] /\ UNCHANGED dir
  BY <1>2, <1>3 DEF WriteFile
<1>5. finode'[c] = [finode[c] EXCEPT !.data = data] /\ \A o \in Client \ {c} : finode'[o] = finode[o]
  BY <1>4 DEF SInv, TInv, TypeOK
<1>6. /\ finode'[c] \in Buffer /\ finode'[c] # NULL /\ finode'[c].fname = n
      /\ finode'[c].fmd_sfblk = finode[c].fmd_sfblk /\ finode'[c].data = data
  <2>1. /\ [finode[c] EXCEPT !.data = data] \in Buffer
        /\ [finode[c] EXCEPT !.data = data].fname = finode[c].fname
        /\ [finode[c] EXCEPT !.data = data].fmd_sfblk = finode[c].fmd_sfblk
        /\ [finode[c] EXCEPT !.data = data].data = data
    BY <1>1, OpenIs DEF Buffer
  <2> QED BY <1>2, <1>5, <2>1, RfsAssumption
<1>7. \A m \in Name : Contents(m)' = IF HandleOf(c) = m THEN data ELSE Contents(m)
  BY <1>1, <1>4, SaveFiles
<1>8. /\ OpenFileOf(c) # NULL /\ OpenFileOf(c) = <<n, finode[c].data>> /\ OpenFileOf(c)' = <<n, data>>
      /\ \A o \in Client \ {c} : OpenFileOf(o)' = OpenFileOf(o)
  BY <1>1, <1>2, <1>5, <1>6, OpenIs DEF OpenFileOf
<1>9. \A o \in Client : HandleOf(o)' = HandleOf(o)
  <2>1. ASSUME NEW m \in Name PROVE Has(dir', finode'[c], m) <=> Has(dir, finode[c], m)
    BY <1>1, <1>4, <1>6 DEF Has
  <2>2. HandleOf(c)' = HandleOf(c)
    BY <2>1, HandleKept
  <2> QED BY <1>4, <1>5, <2>2, HandlesAre
<1>10. F!Write(c)
  <2>1. \A m \in Name : Contents(m)' = IF HandleOf(c) = m THEN Append(OpenMap[c][2], n) ELSE Contents(m)
    BY <1>3, <1>7, <1>8 DEF OpenMap
  <2>2. OpenMap' = [OpenMap EXCEPT ![c] = <<@[1], Append(OpenMap[c][2], n)>>] /\ OpenMap[c] # NULL
    <3>1. DOMAIN OpenMap = Client /\ OpenMap[c] = <<n, finode[c].data>>
      BY <1>8 DEF OpenMap
    <3>2. OpenMap' = [o \in Client |-> IF o = c THEN <<n, data>> ELSE OpenMap[o]]
      BY <1>8 DEF OpenMap
    <3>3. OpenMap[c][1] = n /\ data = Append(OpenMap[c][2], n)
      BY <1>3, <3>1
    <3>4. OpenMap[c] # NULL
      BY <1>8 DEF OpenMap
    <3> QED BY <3>1, <3>2, <3>3, <3>4
  <2> QED BY <1>9, <2>1, <2>2 DEF F!Write, F!Save, OpenMap
<1> QED BY <1>10 DEF F!Next

LEMMA CloseFileFiles ==
  ASSUME SInv, SInv', NEW c \in Client, CloseFile(c)
  PROVE  F!Next
<1>1. /\ finode[c] # NULL /\ UNCHANGED dir
      /\ blk' = [blk EXCEPT ![finode[c].fmd_sfblk] = finode[c].data]
  BY DEF CloseFile
<1>2. finode'[c] = NULL /\ \A o \in Client \ {c} : finode'[o] = finode[o]
  BY DEF CloseFile, SInv, TInv, TypeOK
<1>3. \A m \in Name : Contents(m)' = IF HandleOf(c) = m THEN finode[c].data ELSE Contents(m)
  BY <1>1, SaveFiles
<1>4. /\ OpenFileOf(c) # NULL /\ OpenFileOf(c)[2] = finode[c].data /\ OpenFileOf(c)' = NULL
      /\ \A o \in Client \ {c} : OpenFileOf(o)' = OpenFileOf(o)
  BY <1>1, <1>2, OpenIs DEF OpenFileOf
<1>5. HandleOf(c)' = NULL /\ \A o \in Client \ {c} : HandleOf(o)' = HandleOf(o)
  <2>1. HandleOf(c)' = NULL
    BY <1>2, HandleNext DEF Has
  <2> QED BY <1>1, <1>2, <2>1, HandlesAre
<1>6. F!Close(c)
  BY <1>3, <1>4, <1>5 DEF F!Close, F!Save
<1> QED BY <1>6 DEF F!Next

LEMMA InitFiles == Init => F!Init
<1> SUFFICES ASSUME Init PROVE F!Init
  OBVIOUS
<1>1. \A n \in Name : Contents(n) = NULL
  BY EmptyEntries, NoFileIs DEF Init, Found
<1>2. \A c \in Client : OpenFileOf(c) = NULL
  BY DEF Init, OpenFileOf
<1>3. \A c \in Client : HandleOf(c) = NULL
  BY EmptyEntries DEF Init, HandleOf, Live
<1> QED BY <1>1, <1>2, <1>3 DEF F!Init

LEMMA NextFiles ==
  ASSUME SInv, SInv', [Next]_vars
  PROVE  [F!Next]_(F!vars)
<1>1. CASE UNCHANGED vars \/ \E c \in Client : Die(c)
  BY <1>1, LookStep DEF vars, disk, Die
<1>2. ASSUME NEW c \in Client,
             \/ \E n \in Name : NewFile(c, n) \/ DelFile(c, n) \/ OpenFile(c, n)
             \/ NewChk(c) \/ NewBlk(c) \/ NewBmp(c) \/ NewDir(c) \/ NewBlkNoMem(c) \/ NewDirNoMem(c)
             \/ DelBlk(c) \/ DelBmp(c) \/ OpPut(c) \/ NewFileBlk(c)
      PROVE  UNCHANGED F!vars
  BY <1>2, LookFiles, NewFileBlkFiles
<1>3. ASSUME NEW c \in Client,
             NewPut(c) \/ DelPut(c) \/ OpBlk(c) \/ WriteFile(c) \/ CloseFile(c)
      PROVE  F!Next \/ UNCHANGED F!vars
  BY <1>3, NewPutFiles, DelPutFiles, OpBlkFiles, WriteFileFiles, CloseFileFiles
<1> QED BY <1>1, <1>2, <1>3, NextIs

(* Until a client enters the driver while another one is inside, the       *)
(* driver is an implementation of Files: what a program writes to its file *)
(* is what the next one to open it reads, and what a handle that outlived  *)
(* its file writes goes to the file that has the block now, or to none.    *)
THEOREM Implements ==
  SpecH => ImplementsFiles \/ <>overlapped
<1>1. Init => F!Init
  BY InitFiles
<1>2. (overlapped \/ SInv) /\ [NextH]_varsH => overlapped' \/ [F!Next]_(F!vars)
  <2> SUFFICES ASSUME overlapped \/ SInv, [NextH]_varsH, ~overlapped'
               PROVE  [F!Next]_(F!vars)
    OBVIOUS
  <2>1. ~overlapped
    BY DEF NextH, varsH
  <2>2. CASE NextH
    <3>1. Next /\ ~Overlaps
      BY <2>2 DEF NextH
    <3>2. SInv'
      BY <2>1, <3>1, NextSafe
    <3> QED BY <2>1, <3>1, <3>2, NextFiles
  <2>3. CASE UNCHANGED varsH
    <3>1. UNCHANGED vars
      BY <2>3 DEF varsH
    <3> QED BY <3>1, LookStep DEF vars, disk
  <2> QED BY <2>2, <2>3
<1> QED BY <1>1, <1>2, SafeUntilOverlap, PTL DEF SpecH, InitH, Spec, ImplementsFiles, F!Spec
=============================================================================
