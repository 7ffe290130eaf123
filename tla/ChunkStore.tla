----------------------------- MODULE ChunkStore -----------------------------
(***************************************************************************)
(* internal/storage: the engine of one storage node, for one fragment id.  *)
(* A fragment is a file under the chunks directory and a record in a bbolt *)
(* index; the two are written one after the other, and nothing but the     *)
(* index transactions excludes the requests from one another.              *)
(*                                                                         *)
(* A file is an inode with a sequence of blocks: an open handle keeps its  *)
(* inode when the name is removed, and os.Create of an existing name cuts  *)
(* the inode that other handles may have open.  A block is the value it    *)
(* belongs to; 0 is a hole.  The HTTP answer of getFragment carries the    *)
(* indexed size as Content-Length: the client gets that many bytes or an   *)
(* error.                                                                  *)
(* Bounds: Threads requests at once, MaxOps requests in all, MaxWriters    *)
(* puts at once.                                                           *)
(***************************************************************************)
EXTENDS Integers, Sequences, FiniteSets

CONSTANTS
  Values,     \* what puts of this fragment may store (positive numbers)
  SizeOf,     \* number of blocks of a value
  Threads,    \* goroutines that serve requests
  MaxOps, MaxWriters

ASSUME ValuesAssumption ==
  /\ Values \subseteq Nat \ {0}
  /\ SizeOf \in [Values -> Nat \ {0}]
  /\ IsFiniteSet(Threads)
  /\ MaxOps \in Nat /\ MaxWriters \in Nat

VARIABLES
  name,     \* the inode the chunk file's name stands for, 0 for no file
  data,     \* the blocks of each inode
  index,    \* the size in the index record, -1 for no record
  thread,   \* what each goroutine is doing
  ops,      \* requests started
  latest,   \* history: the last put or delete to start, "alone" when none was
            \* under way, "acked" when it was a put and has succeeded
  version,  \* history: the value on which all puts agree since one, or a delete,
            \* was alone and succeeded; 0 for no put, Mixed for several values
  due       \* history: the version when each get began, and the puts since

ghosts == <<version, due>>
vars == <<name, data, index, thread, ops, latest, ghosts>>

Inodes == 1..MaxOps
Idle == [pc |-> "idle"]
Answers == {"whole", "broken", "notfound"}

Mixed == -1
Versions == Values \cup {0, Mixed}

Blocks == Seq(Values \cup {0})
ThreadState ==
  [pc: {"idle", "delete", "broken", "notfound"}]
  \cup [pc: {"write", "unlink", "index"}, value: Values, inode: Inodes, offset: Nat]
  \cup [pc: {"open"}, size: Nat]
  \cup [pc: {"stream"}, size: Nat, inode: Inodes, got: Blocks]
  \cup [pc: {"whole"}, got: Blocks]

TypeOK ==
  /\ name \in 0..MaxOps
  /\ data \in [Inodes -> Blocks]
  /\ index \in {-1} \cup Nat
  /\ thread \in [Threads -> ThreadState]
  /\ \A t \in Threads :
       thread[t].pc \in {"write", "index"} => thread[t].offset <= SizeOf[thread[t].value]
  /\ ops \in 0..MaxOps
  /\ latest \in {"none", "alone", "acked"}
  /\ version \in Versions
  /\ due \in [Threads -> Versions]

Init ==
  /\ name = 0
  /\ data = [i \in Inodes |-> << >>]
  /\ index = -1
  /\ thread = [t \in Threads |-> Idle]
  /\ ops = 0
  /\ latest = "none"
  /\ version = 0
  /\ due = [t \in Threads |-> 0]

Content(v) == [i \in 1..SizeOf[v] |-> v]

Writers == {t \in Threads : thread[t].pc \in {"write", "unlink", "index"}}
Mutators == Writers \cup {t \in Threads : thread[t].pc = "delete"}

(* A request arrives at a goroutine that has answered its last one.        *)
Begin(t) ==
  /\ thread[t].pc \in {"idle"} \cup Answers
  /\ ops < MaxOps
  /\ ops' = ops + 1

StartsAlone == latest' = IF Mutators = {} THEN "alone" ELSE "none"

(* A version when a put of another value, or of the same one, comes in.    *)
Merge(u, v) == IF u \in {0, v} THEN v ELSE Mixed

Getting(t) == thread[t].pc \in {"open", "stream"}

Goto(t, state) == thread' = [thread EXCEPT ![t] = state]

(***************************************************************************)
(* Put                                                                     *)
(***************************************************************************)

(* os.Create: a new inode, or the one the name has, cut to nothing.        *)
PutCreate(t, v) ==
  LET inode == IF name = 0 THEN ops + 1 ELSE name IN
  /\ Begin(t)
  /\ Cardinality(Writers) < MaxWriters
  /\ name' = inode
  /\ data' = [data EXCEPT ![inode] = << >>]
  /\ Goto(t, [pc |-> "write", value |-> v, inode |-> inode, offset |-> 0])
  /\ StartsAlone
  /\ version' = Merge(version, v)
  /\ due' = [u \in Threads |-> IF Getting(u) THEN Merge(due[u], v) ELSE due[u]]
  /\ UNCHANGED index

(* A write at the handle's own offset leaves a hole behind the end.        *)
WriteAt(blocks, offset, v) ==
  [i \in 1..(IF Len(blocks) > offset THEN Len(blocks) ELSE offset + 1) |->
     IF i = offset + 1 THEN v ELSE IF i <= Len(blocks) THEN blocks[i] ELSE 0]

\* Mutant: the copy ends one block late.
OneMoreWritten(t) == thread[t].offset > SizeOf[thread[t].value]

AllWritten(t) == thread[t].offset = SizeOf[thread[t].value]

PutWrite(t) ==
  /\ thread[t].pc = "write" /\ ~ AllWritten(t)
  /\ data' = [data EXCEPT ![thread[t].inode] =
                WriteAt(@, thread[t].offset, thread[t].value)]
  /\ Goto(t, [thread[t] EXCEPT !.offset = @ + 1])
  /\ UNCHANGED <<name, index, ops, latest, ghosts>>

PutClose(t) ==
  /\ thread[t].pc = "write" /\ AllWritten(t)
  /\ Goto(t, [thread[t] EXCEPT !.pc = "index"])
  /\ UNCHANGED <<name, data, index, ops, latest, ghosts>>

\* Mutant: a failed copy is indexed like a good one.
PutIndexesAnyway(t) ==
  /\ thread[t].pc = "write"
  /\ Goto(t, [thread[t] EXCEPT !.pc = "index"])
  /\ UNCHANGED <<name, data, index, ops, latest, ghosts>>

(* io.Copy or Close fails: the file is to be removed.                      *)
PutError(t) ==
  /\ thread[t].pc = "write"
  /\ Goto(t, [thread[t] EXCEPT !.pc = "unlink"])
  /\ UNCHANGED <<name, data, index, ops, latest, ghosts>>

(* os.Remove takes the name away, whichever inode it stands for by now;    *)
(* the index record of an earlier put stays.                               *)
PutUnlink(t) ==
  /\ thread[t].pc = "unlink"
  /\ name' = 0
  /\ Goto(t, Idle)
  /\ UNCHANGED <<data, index, ops, latest, ghosts>>

(* The index transaction; Put returns nil.                                 *)
PutIndex(t) ==
  /\ thread[t].pc = "index"
  /\ index' = SizeOf[thread[t].value]
  /\ Goto(t, Idle)
  /\ latest' = IF latest = "alone" THEN "acked" ELSE latest
  /\ version' = IF latest = "alone" THEN thread[t].value ELSE version
  /\ UNCHANGED <<name, data, ops, due>>

(* ... or it fails, and the new file stays under the old record.           *)
PutIndexError(t) ==
  /\ thread[t].pc = "index"
  /\ Goto(t, Idle)
  /\ UNCHANGED <<name, data, index, ops, latest, ghosts>>

(***************************************************************************)
(* GetStream and the answer of getFragment                                 *)
(***************************************************************************)
GetMeta(t) ==
  /\ Begin(t)
  /\ Goto(t, IF index = -1 THEN [pc |-> "notfound"]
             ELSE [pc |-> "open", size |-> index])
  /\ due' = [due EXCEPT ![t] = version]
  /\ UNCHANGED <<name, data, index, latest, version>>

GetOpen(t) ==
  /\ thread[t].pc = "open"
  /\ Goto(t, IF name = 0 THEN [pc |-> "notfound"]
             ELSE [pc |-> "stream", size |-> thread[t].size,
                   inode |-> name, got |-> << >>])
  /\ UNCHANGED <<name, data, index, ops, latest, ghosts>>

Offset(t) == Len(thread[t].got)
AtEOF(t) == Offset(t) >= Len(data[thread[t].inode])

GetRead(t) ==
  /\ thread[t].pc = "stream"
  /\ Offset(t) < thread[t].size /\ ~ AtEOF(t)
  /\ Goto(t, [thread[t] EXCEPT
       !.got = Append(@, data[thread[t].inode][Offset(t) + 1])])
  /\ UNCHANGED <<name, data, index, ops, latest, ghosts>>

\* Mutant: without a Content-Length the end of the file is the end.
CompleteAtEOF(t) == TRUE

(* The client has as many bytes as the Content-Length announced.           *)
Complete(t) == Offset(t) = thread[t].size

GetEnd(t) ==
  /\ thread[t].pc = "stream"
  /\ Offset(t) = thread[t].size \/ AtEOF(t)
  /\ Goto(t, IF Complete(t) THEN [pc |-> "whole", got |-> thread[t].got]
             ELSE [pc |-> "broken"])
  /\ UNCHANGED <<name, data, index, ops, latest, ghosts>>

(***************************************************************************)
(* Delete: the file first, then the record.                                *)
(***************************************************************************)
DeleteUnlink(t) ==
  /\ Begin(t)
  /\ name' = 0
  /\ Goto(t, [pc |-> "delete"])
  /\ StartsAlone
  /\ UNCHANGED <<data, index, ghosts>>

DeleteIndex(t) ==
  /\ thread[t].pc = "delete"
  /\ index' = -1
  /\ Goto(t, Idle)
  /\ version' = IF latest = "alone" THEN 0 ELSE version
  /\ UNCHANGED <<name, data, ops, latest, due>>

(***************************************************************************)
(* Crashes.  The process dies and starts again: the requests are gone, the *)
(* files and the index are as they were.  When the machine loses power a   *)
(* chunk file may be cut anywhere, for it is not synced; the index is.     *)
(***************************************************************************)
Crash ==
  /\ \E t \in Threads : thread[t].pc \notin {"idle"} \cup Answers
  /\ thread' = [t \in Threads |-> Idle]
  /\ UNCHANGED <<name, data, index, ops, latest, ghosts>>

PowerLoss ==
  /\ name # 0
  /\ \E m \in 0..(Len(data[name]) - 1) :
       data' = [data EXCEPT ![name] = SubSeq(@, 1, m)]
  /\ thread' = [t \in Threads |-> Idle]
  /\ latest' = "none"
  /\ UNCHANGED <<name, index, ops, ghosts>>

Next ==
  \/ \E t \in Threads :
       \/ \E v \in Values : PutCreate(t, v)
       \/ PutWrite(t) \/ PutClose(t) \/ PutError(t) \/ PutUnlink(t)
       \/ PutIndex(t) \/ PutIndexError(t)
       \/ GetMeta(t) \/ GetOpen(t) \/ GetRead(t) \/ GetEnd(t)
       \/ DeleteUnlink(t) \/ DeleteIndex(t)
  \/ Crash \/ PowerLoss

Spec == Init /\ [][Next]_vars

-----------------------------------------------------------------------------
(* A get that ends without an error has returned one whole value, whatever *)
(* puts, deletes, failures and crashes overlap it (getFragment with its    *)
(* Content-Length over GetStream).  It fails when the value is overwritten.*)
ReadsAreWhole ==
  \A t \in Threads :
    thread[t].pc = "whole" => \E v \in Values : thread[t].got = Content(v)

(* The fragment is a safe register as long as puts come one at a time: a   *)
(* get that ends without an error returns the version it began with, never *)
(* an older value nor parts of one, unless a put of another value begins   *)
(* before it ends.  Deletes, failed puts, crashes, repair copies of the    *)
(* same value and gets beside it change nothing (Put, GetStream, Delete).  *)
ReadsReturnVersion ==
  \A t \in Threads :
    thread[t].pc = "whole" /\ due[t] \in Values => thread[t].got = Content(due[t])

(* After a put that succeeded and that no other put or delete overlapped,  *)
(* until the next one starts, the record and the file are of the version   *)
(* and a get returns that put's value: neither a crash nor the failures of *)
(* earlier puts undo it (Put).                                             *)
AckedPutIsReadable ==
  latest = "acked" =>
    /\ version \in Values
    /\ name # 0 /\ data[name] = Content(version) /\ index = SizeOf[version]
=============================================================================
