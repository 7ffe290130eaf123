-------------------------- MODULE ChunkStoreProofs --------------------------
(***************************************************************************)
(* Proofs about the storage engine of one node, for any values, number of  *)
(* threads and number of requests.                                         *)
(***************************************************************************)
EXTENDS ChunkStore, FiniteSetTheorems, TLAPS

(***************************************************************************)
(* Type correctness                                                        *)
(***************************************************************************)

(* A write at the end of the blocks or inside them, or beyond.             *)
LEMMA WriteAtType ==
  ASSUME NEW blocks \in Blocks, NEW offset \in Nat, NEW v \in Values
  PROVE  /\ WriteAt(blocks, offset, v) \in Blocks
         /\ Len(WriteAt(blocks, offset, v)) > offset
         /\ Len(WriteAt(blocks, offset, v)) >= Len(blocks)
<1>1. Len(blocks) \in Nat /\ \A i \in 1..Len(blocks) : blocks[i] \in Values \cup {0}
  BY DEF Blocks
<1> DEFINE n == IF Len(blocks) > offset THEN Len(blocks) ELSE offset + 1
<1>2. n \in Nat /\ n > offset /\ n >= Len(blocks)
  BY <1>1
<1>3. WriteAt(blocks, offset, v) =
        [i \in 1..n |-> IF i = offset + 1 THEN v
                        ELSE IF i <= Len(blocks) THEN blocks[i] ELSE 0]
  BY DEF WriteAt
<1>4. \A i \in 1..n : (IF i = offset + 1 THEN v
                       ELSE IF i <= Len(blocks) THEN blocks[i] ELSE 0) \in Values \cup {0}
  BY <1>1, <1>2
<1> HIDE DEF n
<1> QED BY <1>2, <1>3, <1>4 DEF Blocks

(* A goroutine goes on; the others stay where they are.                    *)
LEMMA GotoType ==
  ASSUME TypeOK, NEW t \in Threads, NEW state \in ThreadState, Goto(t, state),
         state.pc \in {"write", "index"} => state.offset <= SizeOf[state.value]
  PROVE  /\ thread' \in [Threads -> ThreadState]
         /\ \A u \in Threads : thread'[u].pc \in {"write", "index"} =>
              thread'[u].offset <= SizeOf[thread'[u].value]
BY DEF TypeOK, Goto

(* Merging a value into a version.                                         *)
LEMMA MergeType ==
  ASSUME NEW u \in Versions, NEW v \in Values
  PROVE  /\ Merge(u, v) \in {v, Mixed} /\ Merge(u, v) # 0
         /\ Merge(u, v) \in Values => Merge(u, v) = v /\ u \in {0, v}
BY ValuesAssumption DEF Merge, Mixed

LEMMA InitType == Init => TypeOK
BY ValuesAssumption DEF Init, TypeOK, ThreadState, Idle, Blocks, Inodes, Versions

LEMMA NextType == TypeOK /\ [Next]_vars => TypeOK'
<1> SUFFICES ASSUME TypeOK, [Next]_vars PROVE TypeOK'
  OBVIOUS
<1>0. /\ MaxOps \in Nat /\ \A v \in Values : SizeOf[v] \in Nat /\ SizeOf[v] > 0
      /\ Idle \in ThreadState /\ Idle.pc = "idle"
  BY ValuesAssumption DEF ThreadState, Idle
<1>1. ASSUME NEW t \in Threads, NEW v \in Values, PutCreate(t, v) PROVE TypeOK'
  <2> DEFINE inode == IF name = 0 THEN ops + 1 ELSE name
             state == [pc |-> "write", value |-> v, inode |-> inode, offset |-> 0]
  <2>1. inode \in Inodes /\ ops' \in 0..MaxOps
    BY <1>0, <1>1 DEF PutCreate, Begin, TypeOK, Inodes
  <2>2. Goto(t, state) /\ name' = inode /\ data' = [data EXCEPT ![inode] = << >>]
        /\ index' = index /\ StartsAlone
    BY <1>1 DEF PutCreate
  <2> HIDE DEF inode
  <2>3. state \in ThreadState /\ state.offset <= SizeOf[state.value]
    BY <1>0, <2>1 DEF ThreadState
  <2> HIDE DEF state
  <2>5. version' \in Versions /\ due' \in [Threads -> Versions]
    <3>1. version' = Merge(version, v)
          /\ due' = [u \in Threads |-> IF Getting(u) THEN Merge(due[u], v) ELSE due[u]]
      BY <1>1 DEF PutCreate
    <3>2. \A u \in Versions : Merge(u, v) \in Versions
      BY MergeType DEF Versions
    <3> QED BY <3>1, <3>2 DEF TypeOK
  <2>4. data' \in [Inodes -> Blocks]
    <3>1. << >> \in Blocks
      BY DEF Blocks
    <3> QED BY <2>2, <3>1 DEF TypeOK
  <2> QED BY <2>1, <2>2, <2>3, <2>4, <2>5, GotoType DEF TypeOK, StartsAlone, Inodes
<1>2. ASSUME NEW t \in Threads, thread[t].pc \in {"write", "unlink", "index"}
      PROVE  /\ thread[t].value \in Values /\ thread[t].inode \in Inodes /\ thread[t].offset \in Nat
             /\ thread[t].pc \in {"write", "index"} => thread[t].offset <= SizeOf[thread[t].value]
             /\ \A pc \in {"write", "unlink", "index"} : [thread[t] EXCEPT !.pc = pc] \in ThreadState
  BY <1>2 DEF TypeOK, ThreadState
<1>3. ASSUME NEW t \in Threads, PutWrite(t) PROVE TypeOK'
  <2> DEFINE state == [thread[t] EXCEPT !.offset = @ + 1]
  <2>1. state \in ThreadState /\ state.offset <= SizeOf[state.value]
    <3>1. thread[t].offset + 1 <= SizeOf[thread[t].value]
      <4>1. /\ thread[t].value \in Values /\ thread[t].offset \in Nat
            /\ thread[t].offset <= SizeOf[thread[t].value]
            /\ thread[t].offset # SizeOf[thread[t].value]
        BY <1>2, <1>3 DEF PutWrite, AllWritten
      <4>2. SizeOf[thread[t].value] \in Nat
        BY <1>0, <4>1
      <4> QED BY <4>1, <4>2
    <3>2. thread[t] \in [pc: {"write", "unlink", "index"}, value: Values, inode: Inodes, offset: Nat]
      BY <1>3 DEF PutWrite, TypeOK, ThreadState
    <3> QED BY <3>1, <3>2 DEF ThreadState
  <2>2. data' \in [Inodes -> Blocks]
    <3> DEFINE new == WriteAt(data[thread[t].inode], thread[t].offset, thread[t].value)
    <3>1. data' = [data EXCEPT ![thread[t].inode] = new]
      BY <1>3 DEF PutWrite
    <3>2. thread[t].inode \in Inodes /\ thread[t].offset \in Nat /\ thread[t].value \in Values
      BY <1>2, <1>3 DEF PutWrite
    <3>3. new \in Blocks
      BY <3>2, WriteAtType DEF TypeOK
    <3> HIDE DEF new
    <3> QED BY <3>1, <3>3 DEF TypeOK
  <2>3. Goto(t, state) /\ UNCHANGED <<name, index, ops, latest, version, due>>
    BY <1>3 DEF PutWrite, ghosts
  <2> HIDE DEF state
  <2> QED BY <2>1, <2>2, <2>3, GotoType DEF TypeOK
<1>4. ASSUME NEW t \in Threads, PutClose(t) \/ PutError(t) PROVE TypeOK'
  <2>1. PICK pc \in {"unlink", "index"} : Goto(t, [thread[t] EXCEPT !.pc = pc])
    BY <1>4 DEF PutClose, PutError
  <2> DEFINE state == [thread[t] EXCEPT !.pc = pc]
  <2>2. /\ state \in ThreadState /\ thread[t].offset <= SizeOf[thread[t].value]
        /\ state.offset = thread[t].offset /\ state.value = thread[t].value
    BY <1>2, <1>4 DEF PutClose, PutError, TypeOK, ThreadState
  <2>3. UNCHANGED <<name, data, index, ops, latest, version, due>>
    BY <1>4 DEF PutClose, PutError, ghosts
  <2> HIDE DEF state
  <2> QED BY <2>1, <2>2, <2>3, GotoType DEF TypeOK, state
<1>5. ASSUME NEW t \in Threads, PutUnlink(t) \/ PutIndex(t) \/ PutIndexError(t) \/ DeleteIndex(t)
      PROVE  TypeOK'
  <2>1. Goto(t, Idle) /\ name' \in {name, 0} /\ index' \in {-1} \cup Nat
        /\ latest' \in {"none", "alone", "acked"} /\ UNCHANGED <<data, ops, due>>
        /\ version' \in Versions
    <3>1. CASE PutIndex(t)
      BY <1>0, <1>2, <3>1 DEF PutIndex, TypeOK, Versions
    <3>2. CASE PutUnlink(t) \/ PutIndexError(t) \/ DeleteIndex(t)
      BY <3>2 DEF PutUnlink, PutIndexError, DeleteIndex, TypeOK, Versions, ghosts
    <3> QED BY <1>5, <3>1, <3>2
  <2> QED BY <1>0, <2>1, GotoType DEF TypeOK
<1>6. ASSUME NEW t \in Threads, GetMeta(t) \/ GetOpen(t) \/ GetEnd(t) PROVE TypeOK'
  <2>1. ops' \in 0..MaxOps /\ UNCHANGED <<name, data, index, latest, version>>
    BY <1>0, <1>6 DEF GetMeta, GetOpen, GetEnd, Begin, TypeOK, ghosts
  <2>3. due' \in [Threads -> Versions]
    BY <1>6 DEF GetMeta, GetOpen, GetEnd, TypeOK, ghosts
  <2>2. PICK state \in ThreadState : Goto(t, state) /\ state.pc \notin {"write", "index"}
    <3>1. CASE GetMeta(t)
      BY <3>1 DEF GetMeta, TypeOK, ThreadState
    <3>2. CASE GetOpen(t)
      <4>1. thread[t].size \in Nat
        BY <3>2 DEF GetOpen, TypeOK, ThreadState
      <4>2. name # 0 => name \in Inodes
        BY DEF TypeOK, Inodes
      <4>3. [pc |-> "notfound"] \in ThreadState
        BY DEF ThreadState
      <4>4. name # 0 => [pc |-> "stream", size |-> thread[t].size, inode |-> name, got |-> << >>]
                          \in ThreadState
        BY <4>1, <4>2 DEF ThreadState, Blocks
      <4> QED BY <3>2, <4>3, <4>4 DEF GetOpen
    <3>3. CASE GetEnd(t)
      <4>1. thread[t].got \in Blocks
        BY <3>3 DEF GetEnd, TypeOK, ThreadState
      <4> QED BY <3>3, <4>1 DEF GetEnd, ThreadState
    <3> QED BY <1>6, <3>1, <3>2, <3>3
  <2> QED BY <2>1, <2>2, <2>3, GotoType DEF TypeOK
<1>7. ASSUME NEW t \in Threads, GetRead(t) PROVE TypeOK'
  <2> DEFINE block == data[thread[t].inode][Offset(t) + 1]
             state == [thread[t] EXCEPT !.got = Append(@, block)]
  <2>1. thread[t] \in [pc: {"stream"}, size: Nat, inode: Inodes, got: Blocks]
    BY <1>7 DEF GetRead, TypeOK, ThreadState
  <2>2. block \in Values \cup {0}
    BY <1>7, <2>1 DEF GetRead, AtEOF, Offset, TypeOK, Blocks
  <2>3. Append(thread[t].got, block) \in Blocks
    BY <2>1, <2>2 DEF Blocks
  <2>4. Goto(t, state) /\ UNCHANGED <<name, data, index, ops, latest, version, due>>
    BY <1>7 DEF GetRead, ghosts
  <2> HIDE DEF block
  <2>5. state \in ThreadState /\ state.pc = "stream"
    BY <2>1, <2>3 DEF ThreadState
  <2> HIDE DEF state
  <2> QED BY <2>4, <2>5, GotoType DEF TypeOK
<1>8. ASSUME NEW t \in Threads, DeleteUnlink(t) PROVE TypeOK'
  <2>1. [pc |-> "delete"] \in ThreadState
    BY DEF ThreadState
  <2>2. Goto(t, [pc |-> "delete"]) /\ name' = 0 /\ ops' \in 0..MaxOps
        /\ latest' \in {"none", "alone", "acked"} /\ UNCHANGED <<data, index, version, due>>
    BY <1>0, <1>8 DEF DeleteUnlink, StartsAlone, Begin, TypeOK, ghosts
  <2> QED BY <1>0, <2>1, <2>2, GotoType DEF TypeOK
<1>9. CASE Crash
  BY <1>0, <1>9 DEF Crash, TypeOK, ghosts
<1>10. CASE PowerLoss
  <2>1. data' \in [Inodes -> Blocks]
    <3>1. PICK m \in 0..(Len(data[name]) - 1) : data' = [data EXCEPT ![name] = SubSeq(@, 1, m)]
      BY <1>10 DEF PowerLoss
    <3>2. name \in Inodes /\ data[name] \in Blocks
      BY <1>10 DEF PowerLoss, TypeOK, Inodes
    <3>3. SubSeq(data[name], 1, m) \in Blocks
      BY <3>1, <3>2 DEF Blocks
    <3> QED BY <3>1, <3>3 DEF TypeOK
  <2> QED BY <1>0, <1>10, <2>1 DEF PowerLoss, TypeOK, ghosts
<1>11. CASE UNCHANGED vars
  BY <1>11 DEF vars, ghosts, TypeOK
<1> QED BY <1>1, <1>3, <1>4, <1>5, <1>6, <1>7, <1>8, <1>9, <1>10, <1>11 DEF Next

(* Every goroutine's state is one the code can be in, every open file is   *)
(* an inode that exists.                                                   *)
THEOREM EngineTypesCorrect == Spec => []TypeOK
<1>1. Init => TypeOK
  BY InitType
<1>2. TypeOK /\ [Next]_vars => TypeOK'
  BY NextType
<1> QED BY <1>1, <1>2, PTL DEF Spec

(***************************************************************************)
(* Acknowledged puts                                                       *)
(***************************************************************************)

(* The first n blocks of a value.                                          *)
Prefix(v, n) == [i \in 1..n |-> v]

(* The file under the name is what the put has written so far; a delete    *)
(* has left no name.                                                       *)
FileIsPrefix ==
  \A t \in Threads :
    /\ thread[t].pc \in {"write", "index"} =>
         /\ name = thread[t].inode
         /\ data[name] = Prefix(thread[t].value, thread[t].offset)
         /\ thread[t].pc = "index" => thread[t].offset = SizeOf[thread[t].value]
    /\ thread[t].pc = "delete" => name = 0

(* A put or delete that started alone is still alone, and when it has been *)
(* acknowledged nobody else has begun.                                     *)
LatestInv ==
  /\ latest = "acked" => Mutators = {}
  /\ latest = "alone" => (\A t, u \in Mutators : t = u) /\ FileIsPrefix
  /\ AckedPutIsReadable

LEMMA PrefixGrows ==
  ASSUME NEW v, NEW n \in Nat
  PROVE  WriteAt(Prefix(v, n), n, v) = Prefix(v, n + 1)
<1>1. Len(Prefix(v, n)) = n /\ \A i \in 1..n : Prefix(v, n)[i] = v
  BY DEF Prefix
<1>2. WriteAt(Prefix(v, n), n, v) =
        [i \in 1..(n + 1) |-> IF i = n + 1 THEN v
                              ELSE IF i <= n THEN Prefix(v, n)[i] ELSE 0]
  BY <1>1 DEF WriteAt
<1>3. \A i \in 1..(n + 1) : (IF i = n + 1 THEN v ELSE IF i <= n THEN Prefix(v, n)[i] ELSE 0) = v
  BY <1>1
<1>4. WriteAt(Prefix(v, n), n, v) = [i \in 1..(n + 1) |-> v]
  BY <1>2, <1>3
<1> QED BY <1>4 DEF Prefix

MutatorPcs == {"write", "unlink", "index", "delete"}

(* Who mutates is known from where the goroutines are.                     *)
LEMMA MutatorsByPc ==
  /\ Mutators = {t \in Threads : thread[t].pc \in MutatorPcs}
  /\ Mutators' = {t \in Threads : thread'[t].pc \in MutatorPcs}
BY DEF Mutators, Writers, MutatorPcs

(* Only one goroutine moves, and it goes where it mutates nothing.         *)
LEMMA LeavesAlone ==
  ASSUME TypeOK, NEW t \in Threads, NEW state, state.pc \notin MutatorPcs, Goto(t, state)
  PROVE  /\ Mutators' = Mutators \ {t}
         /\ \A u \in Mutators' : thread'[u] = thread[u]
         /\ \A u \in Threads : thread'[u].pc \in MutatorPcs =>
              u # t /\ thread'[u] = thread[u]
<1>1. \A u \in Threads : thread'[u] = IF u = t THEN state ELSE thread[u]
  BY DEF TypeOK, Goto
<1>2. Mutators = {u \in Threads : thread[u].pc \in MutatorPcs}
      /\ Mutators' = {u \in Threads : thread'[u].pc \in MutatorPcs}
  BY MutatorsByPc
<1> QED BY <1>1, <1>2 DEF MutatorPcs

(* Steps that change neither the file nor the record.                      *)
LEMMA LeavesFile ==
  ASSUME TypeOK, LatestInv, NEW t \in Threads, NEW state, state.pc \notin MutatorPcs,
         Goto(t, state), UNCHANGED <<name, data, index, latest, version>>
  PROVE  LatestInv'
<1>1. Mutators' = Mutators \ {t}
  BY LeavesAlone
<1>2. FileIsPrefix => FileIsPrefix'
  BY LeavesAlone DEF FileIsPrefix, MutatorPcs
<1>3. AckedPutIsReadable'
  BY DEF LatestInv, AckedPutIsReadable
<1> QED BY <1>1, <1>2, <1>3 DEF LatestInv

(* The last step of a mutator that is not acknowledged.                    *)
LEMMA GivesUp ==
  ASSUME TypeOK, LatestInv, NEW t \in Mutators, Goto(t, Idle),
         UNCHANGED <<data, latest>>
  PROVE  LatestInv'
<1>1. latest # "acked" /\ t \in Threads
  BY DEF LatestInv, Mutators, Writers
<1>2. /\ Mutators' = Mutators \ {t}
      /\ \A u \in Threads : thread'[u].pc \in MutatorPcs => u # t /\ thread'[u] = thread[u]
  BY <1>1, LeavesAlone DEF Idle, MutatorPcs
<1>3. latest = "alone" => FileIsPrefix'
  <2>1. ASSUME latest = "alone", NEW u \in Threads, thread'[u].pc \in MutatorPcs
        PROVE  FALSE
    <3>1. u # t /\ u \in Mutators
      BY <1>2, <2>1, MutatorsByPc
    <3> QED BY <2>1, <3>1 DEF LatestInv
  <2> QED BY <2>1 DEF FileIsPrefix, MutatorPcs
<1> QED BY <1>1, <1>2, <1>3 DEF LatestInv, AckedPutIsReadable

LEMMA NextLatest == TypeOK /\ LatestInv /\ [Next]_vars => LatestInv'
<1> SUFFICES ASSUME TypeOK, LatestInv, [Next]_vars PROVE LatestInv'
  OBVIOUS
<1>1. ASSUME NEW t \in Threads, NEW v \in Values, PutCreate(t, v) PROVE LatestInv'
  <2> DEFINE inode == IF name = 0 THEN ops + 1 ELSE name
             state == [pc |-> "write", value |-> v, inode |-> inode, offset |-> 0]
  <2>1. /\ Goto(t, state) /\ name' = inode /\ data' = [data EXCEPT ![inode] = << >>]
        /\ latest' = IF Mutators = {} THEN "alone" ELSE "none"
    BY <1>1 DEF PutCreate, StartsAlone
  <2>2. inode \in Inodes
    BY <1>1, ValuesAssumption DEF PutCreate, Begin, TypeOK, Inodes
  <2>3. thread' = [thread EXCEPT ![t] = state]
    BY <2>1 DEF Goto
  <2> HIDE DEF inode
  <2>4. ASSUME Mutators = {} PROVE \A u, w \in Mutators' : u = w
    <3>1. \A u \in Mutators' : u \in Threads /\ thread'[u].pc \in MutatorPcs
      BY MutatorsByPc
    <3>2. \A u \in Threads \ {t} : thread'[u] = thread[u]
      BY <2>3 DEF TypeOK
    <3> QED BY <2>4, <3>1, <3>2, MutatorsByPc
  <2>5. ASSUME Mutators = {} PROVE FileIsPrefix'
    <3>1. \A u \in Threads \ {t} : thread'[u].pc \notin {"write", "index", "delete"}
      BY <2>3, <2>5 DEF TypeOK, Mutators, Writers
    <3>2. thread'[t] = state
      BY <2>3 DEF TypeOK
    <3>3. data'[inode] = << >>
      BY <2>1, <2>2 DEF TypeOK
    <3>4. << >> = Prefix(v, 0)
      BY DEF Prefix
    <3> QED BY <2>1, <3>1, <3>2, <3>3, <3>4 DEF FileIsPrefix
  <2> QED BY <2>1, <2>4, <2>5 DEF LatestInv, AckedPutIsReadable
<1>2. ASSUME NEW t \in Threads, thread[t].pc \in {"write", "unlink", "index"}
      PROVE  /\ thread[t] \in [pc: {"write", "unlink", "index"}, value: Values, inode: Inodes, offset: Nat]
             /\ t \in Mutators /\ latest # "acked"
  BY <1>2 DEF TypeOK, ThreadState, Mutators, Writers, LatestInv
<1>3. ASSUME NEW t \in Threads, NEW state, state.pc \in {"write", "unlink", "index"},
             Goto(t, state), thread[t].pc = "write", latest' = latest,
             latest = "alone" /\ state.pc \in {"write", "index"} =>
               /\ name' = state.inode /\ data'[name'] = Prefix(state.value, state.offset)
               /\ state.pc = "index" => state.offset = SizeOf[state.value]
      PROVE  LatestInv'
  <2>1. t \in Mutators /\ latest # "acked"
    BY <1>2, <1>3
  <2>2. \A u \in Threads : thread'[u] = IF u = t THEN state ELSE thread[u]
    BY <1>3 DEF Goto, TypeOK
  <2>3. Mutators' = Mutators
    <3>1. Mutators' = {u \in Threads : thread'[u].pc \in MutatorPcs}
      BY MutatorsByPc
    <3> QED BY <1>3, <2>1, <2>2, <3>1, MutatorsByPc DEF MutatorPcs
  <2>4. ASSUME latest = "alone" PROVE FileIsPrefix'
    <3>1. \A u \in Threads \ {t} : thread'[u].pc \notin {"write", "index", "delete"}
      BY <2>1, <2>2, <2>4 DEF LatestInv, Mutators, Writers
    <3> QED BY <1>3, <2>2, <2>4, <3>1 DEF FileIsPrefix
  <2> QED BY <1>3, <2>1, <2>3, <2>4 DEF LatestInv, AckedPutIsReadable
<1>4. ASSUME NEW t \in Threads, PutWrite(t) PROVE LatestInv'
  <2> DEFINE state == [thread[t] EXCEPT !.offset = @ + 1]
             new == WriteAt(data[thread[t].inode], thread[t].offset, thread[t].value)
  <2>1. /\ thread[t].pc = "write" /\ Goto(t, state) /\ latest' = latest /\ name' = name
        /\ data' = [data EXCEPT ![thread[t].inode] = new]
    BY <1>4 DEF PutWrite
  <2>2. /\ thread[t].offset \in Nat /\ thread[t].inode \in Inodes
        /\ state.pc = "write" /\ state.inode = thread[t].inode
        /\ state.value = thread[t].value /\ state.offset = thread[t].offset + 1
    BY <1>2, <2>1
  <2>3. ASSUME latest = "alone"
        PROVE  name' = state.inode /\ data'[name'] = Prefix(state.value, state.offset)
    <3>1. name = thread[t].inode /\ data[name] = Prefix(thread[t].value, thread[t].offset)
      BY <2>1, <2>3 DEF LatestInv, FileIsPrefix
    <3>2. new = Prefix(thread[t].value, thread[t].offset + 1)
      BY <2>2, <3>1, PrefixGrows
    <3> HIDE DEF state, new
    <3> QED BY <2>1, <2>2, <3>1, <3>2 DEF TypeOK
  <2> HIDE DEF state, new
  <2> QED BY <1>3, <2>1, <2>2, <2>3
<1>5. ASSUME NEW t \in Threads, PutClose(t) \/ PutError(t) PROVE LatestInv'
  <2>1. PICK pc \in {"unlink", "index"} :
          /\ Goto(t, [thread[t] EXCEPT !.pc = pc])
          /\ pc = "index" => AllWritten(t)
    BY <1>5 DEF PutClose, PutError
  <2> DEFINE state == [thread[t] EXCEPT !.pc = pc]
  <2>2. /\ thread[t].pc = "write" /\ UNCHANGED <<name, data, index, latest>>
    BY <1>5 DEF PutClose, PutError
  <2>3. /\ state.pc = pc /\ state.inode = thread[t].inode
        /\ state.value = thread[t].value /\ state.offset = thread[t].offset
    BY <1>2, <2>2
  <2>4. latest = "alone" => /\ name = thread[t].inode
                            /\ data[name] = Prefix(thread[t].value, thread[t].offset)
    BY <2>2 DEF LatestInv, FileIsPrefix
  <2>5. Goto(t, state) /\ (pc = "index" => thread[t].offset = SizeOf[thread[t].value])
    BY <2>1 DEF AllWritten
  <2> HIDE DEF state
  <2> QED BY <1>3, <2>1, <2>2, <2>3, <2>4, <2>5
<1>6. ASSUME NEW t \in Threads, PutUnlink(t) \/ PutIndexError(t) \/ DeleteIndex(t) PROVE LatestInv'
  <2>1. t \in Mutators /\ Goto(t, Idle) /\ UNCHANGED <<data, latest>>
    BY <1>6 DEF PutUnlink, PutIndexError, DeleteIndex, Mutators, Writers
  <2> QED BY <2>1, GivesUp
<1>7. ASSUME NEW t \in Threads, PutIndex(t) PROVE LatestInv'
  <2>1. /\ thread[t].pc = "index" /\ index' = SizeOf[thread[t].value] /\ Goto(t, Idle)
        /\ latest' = (IF latest = "alone" THEN "acked" ELSE latest) /\ UNCHANGED <<name, data>>
        /\ latest = "alone" => version' = thread[t].value
    BY <1>7 DEF PutIndex
  <2>2. t \in Mutators /\ latest # "acked"
    BY <1>2, <2>1
  <2>3. CASE latest = "alone"
    <3>1. Mutators' = Mutators \ {t}
      BY <2>1, LeavesAlone DEF Idle, MutatorPcs
    <3>2. Mutators' = {}
      BY <2>2, <2>3, <3>1 DEF LatestInv
    <3>3. /\ name = thread[t].inode
          /\ data[name] = Prefix(thread[t].value, SizeOf[thread[t].value])
      BY <2>1, <2>3 DEF LatestInv, FileIsPrefix
    <3>4. thread[t].value \in Values /\ thread[t].inode # 0
      BY <1>2, <2>1 DEF Inodes
    <3>5. data'[name'] = Content(thread[t].value)
      BY <2>1, <3>3 DEF Content, Prefix
    <3> QED BY <2>1, <2>3, <3>2, <3>3, <3>4, <3>5 DEF LatestInv, AckedPutIsReadable
  <2>4. CASE latest # "alone"
    BY <2>1, <2>2, <2>4 DEF LatestInv, AckedPutIsReadable
  <2> QED BY <2>3, <2>4
<1>8. ASSUME NEW t \in Threads, GetMeta(t) \/ GetOpen(t) \/ GetRead(t) \/ GetEnd(t) PROVE LatestInv'
  <2>1. UNCHANGED <<name, data, index, latest, version>>
    BY <1>8 DEF GetMeta, GetOpen, GetRead, GetEnd, ghosts
  <2>2. PICK state : Goto(t, state) /\ state.pc \notin MutatorPcs
    <3>1. CASE GetMeta(t) \/ GetOpen(t) \/ GetEnd(t)
      BY <3>1 DEF GetMeta, GetOpen, GetEnd, MutatorPcs
    <3>2. CASE GetRead(t)
      <4>1. thread[t] \in [pc: {"stream"}, size: Nat, inode: Inodes, got: Blocks]
        BY <3>2 DEF GetRead, TypeOK, ThreadState
      <4>2. PICK block : Goto(t, [thread[t] EXCEPT !.got = Append(@, block)])
        BY <3>2 DEF GetRead
      <4>3. [thread[t] EXCEPT !.got = Append(@, block)].pc = "stream"
        BY <4>1
      <4> QED BY <4>2, <4>3 DEF MutatorPcs
    <3> QED BY <1>8, <3>1, <3>2
  <2> QED BY <2>1, <2>2, LeavesFile
<1>9. ASSUME NEW t \in Threads, DeleteUnlink(t) PROVE LatestInv'
  <2> DEFINE state == [pc |-> "delete"]
  <2>1. /\ Goto(t, state) /\ name' = 0
        /\ latest' = IF Mutators = {} THEN "alone" ELSE "none"
    BY <1>9 DEF DeleteUnlink, StartsAlone
  <2>2. \A u \in Threads : thread'[u] = IF u = t THEN state ELSE thread[u]
    BY <2>1 DEF Goto, TypeOK
  <2>3. Mutators' = {u \in Threads : thread'[u].pc \in MutatorPcs}
    BY MutatorsByPc
  <2>4. ASSUME Mutators = {} PROVE (\A u, w \in Mutators' : u = w) /\ FileIsPrefix'
    <3>1. \A u \in Threads \ {t} : thread'[u].pc \notin MutatorPcs
      BY <2>2, <2>4, MutatorsByPc
    <3> QED BY <2>1, <2>2, <2>3, <3>1 DEF FileIsPrefix, MutatorPcs
  <2> QED BY <2>1, <2>4 DEF LatestInv, AckedPutIsReadable
<1>10. CASE Crash \/ PowerLoss
  <2>1. \A u \in Threads : thread'[u].pc = "idle"
    BY <1>10 DEF Crash, PowerLoss, Idle
  <2>2. Mutators' = {} /\ FileIsPrefix'
    <3>1. Mutators' = {u \in Threads : thread'[u].pc \in MutatorPcs}
      BY MutatorsByPc
    <3> QED BY <2>1, <3>1 DEF FileIsPrefix, MutatorPcs
  <2>3. latest' = "none" \/ UNCHANGED <<name, data, index, latest, version>>
    BY <1>10 DEF Crash, PowerLoss, ghosts
  <2> QED BY <2>2, <2>3 DEF LatestInv, AckedPutIsReadable
<1>11. CASE UNCHANGED vars
  BY <1>11 DEF vars, ghosts, LatestInv, Mutators, Writers, FileIsPrefix, AckedPutIsReadable
<1> QED BY <1>1, <1>4, <1>5, <1>6, <1>7, <1>8, <1>9, <1>10, <1>11 DEF Next

(* A put that succeeded and that nothing overlapped can be read back whole *)
(* until the next put or delete of the fragment starts, after any crash of *)
(* the process and whatever earlier puts and deletes left behind.          *)
THEOREM AckedPutStaysReadable == Spec => []AckedPutIsReadable
<1>1. Init => LatestInv
  BY DEF Init, Idle, LatestInv, AckedPutIsReadable
<1>2. TypeOK /\ LatestInv /\ [Next]_vars => LatestInv'
  BY NextLatest
<1>3. LatestInv => AckedPutIsReadable
  BY DEF LatestInv
<1> QED BY <1>1, <1>2, <1>3, EngineTypesCorrect, PTL DEF Spec

(***************************************************************************)
(* What a get returns                                                      *)
(***************************************************************************)

(* Puts of one fragment store the same bytes, one put at a time.           *)
OneVersion == MaxWriters = 1 /\ \A v, w \in Values : v = w

AllAre(blocks, v) == \A i \in 1..Len(blocks) : blocks[i] = v

(* There is one put at a time, and it never writes behind the end of its   *)
(* file: a power loss that cuts the file stops the put with it.            *)
OneWriter ==
  /\ \A t, u \in Writers : t = u
  /\ \A t \in Threads :
       thread[t].pc = "write" => thread[t].offset <= Len(data[thread[t].inode])

(* The record, the file and the put under way are of the version.          *)
VersionKept ==
  /\ version \in Values =>
       /\ index \in {-1, SizeOf[version]}
       /\ name # 0 => AllAre(data[name], version)
       /\ \A t \in Writers : thread[t].value = version
  /\ version = 0 => name = 0 /\ index = -1 /\ Writers = {}

(* A get whose version is v (not Mixed) counts to the size of v, reads a   *)
(* file of nothing but v, and no put of another value is under way.        *)
GetKept(state, v) ==
  /\ state.pc \in {"open", "stream", "whole"} => v # 0
  /\ v \in Values =>
       /\ state.pc \in {"open", "stream"} =>
            state.size = SizeOf[v] /\ \A u \in Writers : thread[u].value = v
       /\ state.pc = "open" /\ name # 0 => AllAre(data[name], v)
       /\ state.pc = "stream" => AllAre(data[state.inode], v) /\ AllAre(state.got, v)
       /\ state.pc = "whole" => state.got = Content(v)

GetsKept == \A t \in Threads : GetKept(thread[t], due[t])

NeverMixed == OneVersion => version # Mixed /\ \A t \in Threads : due[t] # Mixed

VersionInv == OneWriter /\ VersionKept /\ GetsKept /\ NeverMixed

WriterPcs == {"write", "unlink", "index"}
GetterPcs == {"open", "stream"}

(* Who moves, and what the others are doing.                               *)
LEMMA GotoMoves ==
  ASSUME TypeOK, NEW t \in Threads, NEW state, Goto(t, state)
  PROVE  /\ \A u \in Threads : thread'[u] = IF u = t THEN state ELSE thread[u]
         /\ Writers = {u \in Threads : thread[u].pc \in WriterPcs}
         /\ Writers' = {u \in Threads : thread'[u].pc \in WriterPcs}
BY DEF TypeOK, Goto, Writers, WriterPcs

(* Steps that leave the blocks alone and start no put: what holds of a     *)
(* get before it holds after.                                              *)
LEMMA KeepsBlocks ==
  ASSUME TypeOK, VersionInv, NEW t \in Threads, NEW state, state.pc \notin WriterPcs,
         NEW v, Goto(t, state), due' = [due EXCEPT ![t] = v], GetKept(state, v),
         data' = data, name' \in {name, 0}, VersionKept', NeverMixed'
  PROVE  VersionInv'
<1>1. /\ \A u \in Threads : thread'[u] = IF u = t THEN state ELSE thread[u]
      /\ Writers = {u \in Threads : thread[u].pc \in WriterPcs}
      /\ Writers' = {u \in Threads : thread'[u].pc \in WriterPcs}
  BY GotoMoves
<1>2. \A u \in Writers' : u \in Writers /\ thread'[u] = thread[u]
  BY <1>1
<1>3. ASSUME NEW s, NEW d, GetKept(s, d) PROVE GetKept(s, d)'
  BY <1>2, <1>3 DEF GetKept
<1>4. ASSUME NEW u \in Threads PROVE GetKept(thread[u], due[u])'
  <2>1. CASE u = t
    <3>1. thread'[u] = state /\ due'[u] = v
      BY <1>1, <2>1 DEF TypeOK
    <3>2. GetKept(state, v)'
      BY <1>3
    <3> QED BY <3>1, <3>2
  <2>2. CASE u # t
    <3>1. thread'[u] = thread[u] /\ due'[u] = due[u]
      BY <1>1, <2>2 DEF TypeOK
    <3>2. GetKept(thread[u], due[u])
      BY DEF VersionInv, GetsKept
    <3>3. PICK s, d : s = thread[u] /\ d = due[u]
      OBVIOUS
    <3>4. GetKept(s, d)'
      BY <1>3, <3>2, <3>3
    <3> QED BY <3>1, <3>3, <3>4
  <2> QED BY <2>1, <2>2
<1>5. OneWriter'
  <2>1. \A u \in Threads : thread'[u].pc = "write" => u \in Writers'
    BY <1>1 DEF WriterPcs
  <2>2. \A u \in Threads : thread'[u].pc = "write" => thread'[u] = thread[u]
    BY <1>2, <2>1
  <2> QED BY <1>2, <2>2 DEF VersionInv, OneWriter
<1> QED BY <1>4, <1>5 DEF VersionInv, GetsKept

(* Blocks that are read, cut or written over are still of the one value.   *)
LEMMA AllAreAppended ==
  ASSUME NEW blocks \in Blocks, NEW v \in Values, AllAre(blocks, v)
  PROVE  AllAre(Append(blocks, v), v)
BY DEF AllAre, Blocks

LEMMA AllAreCut ==
  ASSUME NEW blocks \in Blocks, NEW v, AllAre(blocks, v), NEW m \in 0..Len(blocks)
  PROVE  AllAre(SubSeq(blocks, 1, m), v)
BY DEF AllAre, Blocks

LEMMA AllAreWritten ==
  ASSUME NEW blocks \in Blocks, NEW offset \in Nat, offset <= Len(blocks),
         NEW v \in Values, AllAre(blocks, v)
  PROVE  AllAre(WriteAt(blocks, offset, v), v)
<1> DEFINE n == IF Len(blocks) > offset THEN Len(blocks) ELSE offset + 1
<1>1. Len(blocks) \in Nat
  BY DEF Blocks
<1>2. n \in Nat /\ n <= Len(blocks) + 1 /\ (n > Len(blocks) => n = offset + 1)
  BY <1>1
<1>3. WriteAt(blocks, offset, v) =
        [i \in 1..n |-> IF i = offset + 1 THEN v
                        ELSE IF i <= Len(blocks) THEN blocks[i] ELSE 0]
  BY DEF WriteAt
<1> HIDE DEF n
<1>4. Len(WriteAt(blocks, offset, v)) = n
  BY <1>2, <1>3
<1>5. ASSUME NEW i \in 1..n PROVE WriteAt(blocks, offset, v)[i] = v
  <2>1. CASE i = offset + 1
    BY <1>3, <2>1
  <2>2. CASE i # offset + 1
    BY <1>1, <1>2, <1>3, <2>2 DEF AllAre
  <2> QED BY <2>1, <2>2
<1> QED BY <1>4, <1>5 DEF AllAre

LEMMA AllAreContent ==
  ASSUME NEW blocks \in Blocks, NEW v \in Values, AllAre(blocks, v), Len(blocks) = SizeOf[v]
  PROVE  blocks = Content(v)
<1>1. \A i \in 1..SizeOf[v] : blocks[i] = v
  BY DEF AllAre
<1> QED BY <1>1 DEF Blocks, Content

(* The steps of a get.                                                     *)
LEMMA GetsGoOn ==
  ASSUME TypeOK, VersionInv, NEW t \in Threads,
         GetMeta(t) \/ GetOpen(t) \/ GetRead(t) \/ GetEnd(t)
  PROVE  VersionInv'
<1>0. GetKept(thread[t], due[t]) /\ due[t] \in Versions
  BY DEF VersionInv, GetsKept, TypeOK
<1>1. UNCHANGED <<name, data, index, version>>
  BY DEF GetMeta, GetOpen, GetRead, GetEnd, ghosts
<1>2. \E state, v : /\ state.pc \notin WriterPcs /\ Goto(t, state)
                    /\ due' = [due EXCEPT ![t] = v] /\ GetKept(state, v)
                    /\ v \in {due[t], version}
  <2>1. CASE GetMeta(t)
    <3> DEFINE opened == [pc |-> "open", size |-> index]
               missing == [pc |-> "notfound"]
               state == IF index = -1 THEN missing ELSE opened
    <3>1. Goto(t, state) /\ due' = [due EXCEPT ![t] = version]
      BY <2>1 DEF GetMeta
    <3>2. GetKept(missing, version)
      BY DEF GetKept
    <3>3. index # -1 => GetKept(opened, version)
      BY DEF GetKept, VersionInv, VersionKept
    <3>4. state.pc \notin WriterPcs /\ GetKept(state, version)
      BY <3>2, <3>3 DEF WriterPcs
    <3> HIDE DEF state
    <3> QED BY <3>1, <3>4
  <2>2. ASSUME ~ GetMeta(t) PROVE due' = due /\ due' = [due EXCEPT ![t] = due[t]]
    BY <2>2 DEF GetOpen, GetRead, GetEnd, ghosts, TypeOK
  <2>3. CASE GetOpen(t)
    <3> DEFINE opened == [pc |-> "stream", size |-> thread[t].size, inode |-> name, got |-> << >>]
               missing == [pc |-> "notfound"]
               state == IF name = 0 THEN missing ELSE opened
    <3>1. thread[t].pc = "open" /\ Goto(t, state) /\ due' = [due EXCEPT ![t] = due[t]]
      BY <2>3 DEF GetOpen, ghosts, TypeOK
    <3>2. GetKept(missing, due[t])
      BY DEF GetKept
    <3>3. name # 0 => GetKept(opened, due[t])
      BY <1>0, <3>1 DEF GetKept, AllAre
    <3>4. state.pc \notin WriterPcs /\ GetKept(state, due[t])
      BY <3>2, <3>3 DEF WriterPcs
    <3> HIDE DEF state
    <3> QED BY <3>1, <3>4
  <2>4. CASE GetRead(t)
    <3> DEFINE block == data[thread[t].inode][Offset(t) + 1]
               state == [thread[t] EXCEPT !.got = Append(@, block)]
    <3>1. /\ thread[t] \in [pc: {"stream"}, size: Nat, inode: Inodes, got: Blocks]
          /\ data[thread[t].inode] \in Blocks
      BY <2>4 DEF GetRead, TypeOK, ThreadState
    <3>2. Goto(t, state) /\ due' = [due EXCEPT ![t] = due[t]]
      BY <2>4 DEF GetRead, ghosts, TypeOK
    <3>3. due[t] \in Values => block = due[t]
      BY <1>0, <2>4, <3>1 DEF GetRead, AtEOF, Offset, GetKept, AllAre, Blocks
    <3> HIDE DEF block
    <3>4. /\ state.pc = "stream" /\ state.size = thread[t].size
          /\ state.inode = thread[t].inode /\ state.got = Append(thread[t].got, block)
      BY <3>1
    <3>5. due[t] \in Values => AllAre(Append(thread[t].got, block), due[t])
      BY <1>0, <3>1, <3>3, AllAreAppended DEF GetKept
    <3> HIDE DEF state
    <3>6. GetKept(state, due[t])
      BY <1>0, <3>1, <3>4, <3>5 DEF GetKept
    <3> QED BY <3>2, <3>4, <3>6 DEF WriterPcs
  <2>5. CASE GetEnd(t)
    <3> DEFINE whole == [pc |-> "whole", got |-> thread[t].got]
               broken == [pc |-> "broken"]
               state == IF Complete(t) THEN whole ELSE broken
    <3>1. /\ thread[t] \in [pc: {"stream"}, size: Nat, inode: Inodes, got: Blocks]
          /\ Goto(t, state) /\ due' = [due EXCEPT ![t] = due[t]]
      BY <2>5 DEF GetEnd, ghosts, TypeOK, ThreadState
    <3>2. GetKept(broken, due[t])
      BY DEF GetKept
    <3>3. Complete(t) => GetKept(whole, due[t])
      <4>1. Complete(t) /\ due[t] \in Values => thread[t].got = Content(due[t])
        BY <1>0, <3>1, AllAreContent DEF Complete, Offset, GetKept
      <4> QED BY <1>0, <3>1, <4>1 DEF GetKept
    <3>4. state.pc \notin WriterPcs /\ GetKept(state, due[t])
      BY <3>2, <3>3 DEF WriterPcs
    <3> HIDE DEF state
    <3> QED BY <3>1, <3>4
  <2> QED BY <2>1, <2>3, <2>4, <2>5
<1>3. PICK state, v : /\ state.pc \notin WriterPcs /\ Goto(t, state)
                      /\ due' = [due EXCEPT ![t] = v] /\ GetKept(state, v)
                      /\ v \in {due[t], version}
  BY <1>2
<1>4. VersionKept'
  <2>1. Writers' \subseteq Writers /\ \A u \in Writers' : thread'[u] = thread[u]
    BY <1>3, GotoMoves
  <2> QED BY <1>1, <2>1 DEF VersionInv, VersionKept
<1>5. NeverMixed'
  BY <1>1, <1>3 DEF VersionInv, NeverMixed, TypeOK
<1> QED BY <1>1, <1>3, <1>4, <1>5, KeepsBlocks

(* The last step of a put, and both of a delete.                           *)
LEMMA PutOrDeleteEnds ==
  ASSUME TypeOK, LatestInv, VersionInv, NEW t \in Threads,
         PutUnlink(t) \/ PutIndex(t) \/ PutIndexError(t) \/ DeleteUnlink(t) \/ DeleteIndex(t)
  PROVE  VersionInv'
<1> DEFINE deleting == [pc |-> "delete"]
<1>1. /\ Goto(t, Idle) \/ Goto(t, deleting)
      /\ data' = data /\ name' \in {name, 0} /\ due' = due /\ due' = [due EXCEPT ![t] = due[t]]
  BY DEF PutUnlink, PutIndex, PutIndexError, DeleteUnlink, DeleteIndex, ghosts, TypeOK
<1>2. /\ GetKept(Idle, due[t]) /\ Idle.pc \notin WriterPcs
      /\ GetKept(deleting, due[t]) /\ deleting.pc \notin WriterPcs
  BY DEF GetKept, Idle, WriterPcs
<1> HIDE DEF deleting
<1>3. Writers' = Writers \ {t} /\ \A u \in Writers' : thread'[u] = thread[u]
  BY <1>1, <1>2, GotoMoves
<1>4. VersionKept' /\ NeverMixed'
  <2>1. CASE PutIndex(t)
    <3>1. /\ thread[t].pc = "index" /\ index' = SizeOf[thread[t].value] /\ name' = name
          /\ version' = IF latest = "alone" THEN thread[t].value ELSE version
      BY <2>1 DEF PutIndex
    <3>2. t \in Writers /\ t \in Mutators /\ thread[t].value \in Values
      BY <3>1 DEF Writers, Mutators, TypeOK, ThreadState
    <3>3. CASE latest = "alone"
      <4>1. Writers' = {}
        BY <1>3, <3>2 DEF VersionInv, OneWriter
      <4>2. name # 0 /\ data[name] = Prefix(thread[t].value, SizeOf[thread[t].value])
        <5>1. thread[t].inode \in Inodes
          BY <3>1 DEF TypeOK, ThreadState
        <5> QED BY <3>1, <3>3, <5>1 DEF LatestInv, FileIsPrefix, Inodes
      <4>3. SizeOf[thread[t].value] \in Nat /\ thread[t].value # 0 /\ thread[t].value # Mixed
        <5>1. \A x \in Values : SizeOf[x] \in Nat /\ x # 0 /\ x # Mixed
          BY ValuesAssumption DEF Mixed
        <5> QED BY <3>2, <5>1
      <4>4. AllAre(data[name], thread[t].value)
        BY <4>2, <4>3 DEF AllAre, Prefix
      <4>5. VersionKept'
        BY <1>1, <3>1, <3>2, <3>3, <4>1, <4>3, <4>4 DEF VersionKept
      <4> QED BY <1>1, <3>1, <3>3, <4>3, <4>5 DEF VersionInv, NeverMixed
    <3>4. CASE latest # "alone"
      <4>1. VersionKept'
        BY <1>1, <1>3, <3>1, <3>2, <3>4 DEF VersionInv, VersionKept
      <4> QED BY <1>1, <3>1, <3>4, <4>1 DEF VersionInv, NeverMixed
    <3> QED BY <3>3, <3>4
  <2>2. CASE DeleteIndex(t)
    <3>1. /\ thread[t].pc = "delete" /\ index' = -1 /\ name' = name
          /\ version' = IF latest = "alone" THEN 0 ELSE version
      BY <2>2 DEF DeleteIndex
    <3>2. 0 \notin Values /\ 0 # Mixed
      BY ValuesAssumption DEF Mixed
    <3>3. CASE latest = "alone"
      <4>1. name = 0 /\ Writers = {}
        BY <3>1, <3>3 DEF LatestInv, FileIsPrefix, Mutators, Writers
      <4>2. VersionKept'
        BY <1>3, <3>1, <3>2, <3>3, <4>1 DEF VersionKept
      <4> QED BY <1>1, <3>1, <3>2, <3>3, <4>2 DEF VersionInv, NeverMixed
    <3>4. CASE latest # "alone"
      <4>1. VersionKept'
        BY <1>1, <1>3, <3>1, <3>4 DEF VersionInv, VersionKept
      <4> QED BY <1>1, <3>1, <3>4, <4>1 DEF VersionInv, NeverMixed
    <3> QED BY <3>3, <3>4
  <2>3. CASE PutUnlink(t) \/ PutIndexError(t) \/ DeleteUnlink(t)
    <3>1. index' = index /\ version' = version
      BY <2>3 DEF PutUnlink, PutIndexError, DeleteUnlink, ghosts
    <3>2. VersionKept'
      BY <1>1, <1>3, <3>1 DEF VersionInv, VersionKept
    <3> QED BY <1>1, <3>1, <3>2 DEF VersionInv, NeverMixed
  <2> QED BY <2>1, <2>2, <2>3
<1> QED BY <1>1, <1>2, <1>4, KeepsBlocks

(* Steps of the one put: what it writes is its value, and that is the      *)
(* version of every get it could disturb.                                  *)
LEMMA KeepsWriter ==
  ASSUME TypeOK, VersionInv, NEW t \in Threads, thread[t].pc \in WriterPcs,
         NEW state, state.pc \in WriterPcs, state.value = thread[t].value, Goto(t, state),
         UNCHANGED <<name, index, version, due>>,
         \A i \in Inodes : AllAre(data[i], thread[t].value) => AllAre(data'[i], thread[t].value),
         state.pc = "write" => state.offset <= Len(data'[state.inode])
  PROVE  VersionInv'
<1> DEFINE x == thread[t].value
<1>1. /\ \A u \in Threads : thread'[u] = IF u = t THEN state ELSE thread[u]
      /\ Writers = {u \in Threads : thread[u].pc \in WriterPcs}
      /\ Writers' = {u \in Threads : thread'[u].pc \in WriterPcs}
  BY GotoMoves
<1>2. Writers = {t} /\ Writers' = {t} /\ thread'[t] = state
  BY <1>1 DEF VersionInv, OneWriter
<1>3. OneWriter'
  <2>1. \A u \in Threads : thread'[u].pc = "write" => u = t
    BY <1>1, <1>2 DEF WriterPcs
  <2> QED BY <1>2, <2>1 DEF OneWriter
<1>4. name # 0 => name \in Inodes
  BY DEF TypeOK, Inodes
<1> HIDE DEF x
<1>5. VersionKept'
  <2>1. version \in Values => version = x
    BY <1>2 DEF VersionInv, VersionKept, x
  <2>2. version # 0
    BY <1>2 DEF VersionInv, VersionKept
  <2>3. version \in Values /\ name # 0 => AllAre(data'[name], version)
    BY <1>4, <2>1 DEF VersionInv, VersionKept, x
  <2> QED BY <1>2, <2>1, <2>2, <2>3 DEF VersionInv, VersionKept, x
<1>6. ASSUME NEW u \in Threads PROVE GetKept(thread[u], due[u])'
  <2>1. CASE u = t
    BY <1>1, <2>1 DEF GetKept, WriterPcs
  <2>2. CASE u # t
    <3>1. thread'[u] = thread[u] /\ due'[u] = due[u] /\ GetKept(thread[u], due[u])
      BY <1>1, <2>2 DEF VersionInv, GetsKept
    <3>2. due[u] \in Values /\ thread[u].pc \in GetterPcs => due[u] = x
      BY <1>2, <3>1 DEF GetKept, GetterPcs, x
    <3>3. thread[u].pc = "stream" => thread[u].inode \in Inodes
      BY DEF TypeOK, ThreadState
    <3>4. due[u] \in Values /\ thread[u].pc = "open" /\ name # 0 => AllAre(data'[name], due[u])
      BY <1>4, <3>1, <3>2 DEF GetKept, GetterPcs, x
    <3>5. due[u] \in Values /\ thread[u].pc = "stream" => AllAre(data'[thread[u].inode], due[u])
      BY <3>1, <3>2, <3>3 DEF GetKept, GetterPcs, x
    <3>6. \A w \in Writers' : thread'[w].value = x
      BY <1>2 DEF x
    <3> QED BY <3>1, <3>2, <3>4, <3>5, <3>6 DEF GetKept, GetterPcs
  <2> QED BY <2>1, <2>2
<1>7. NeverMixed'
  BY DEF VersionInv, NeverMixed
<1> QED BY <1>3, <1>5, <1>6, <1>7 DEF VersionInv, GetsKept

LEMMA WriterType ==
  ASSUME TypeOK, NEW t \in Threads, thread[t].pc \in WriterPcs
  PROVE  thread[t] \in [pc: WriterPcs, value: Values, inode: Inodes, offset: Nat]
BY DEF TypeOK, ThreadState, WriterPcs

LEMMA PutGoesOn ==
  ASSUME TypeOK, VersionInv, NEW t \in Threads, PutWrite(t) \/ PutClose(t) \/ PutError(t)
  PROVE  VersionInv'
<1>1. CASE PutWrite(t)
  <2> DEFINE state == [thread[t] EXCEPT !.offset = @ + 1]
             new == WriteAt(data[thread[t].inode], thread[t].offset, thread[t].value)
  <2>1. /\ thread[t].pc = "write" /\ Goto(t, state) /\ UNCHANGED <<name, index, version, due>>
        /\ data' = [data EXCEPT ![thread[t].inode] = new]
    BY <1>1 DEF PutWrite, ghosts
  <2>2. thread[t] \in [pc: WriterPcs, value: Values, inode: Inodes, offset: Nat]
    BY <2>1, WriterType DEF WriterPcs
  <2>3. /\ state.pc = "write" /\ state.inode = thread[t].inode
        /\ state.value = thread[t].value /\ state.offset = thread[t].offset + 1
    BY <2>1, <2>2
  <2>4. data[thread[t].inode] \in Blocks /\ thread[t].offset <= Len(data[thread[t].inode])
    BY <2>1, <2>2 DEF TypeOK, VersionInv, OneWriter
  <2>5. AllAre(data[thread[t].inode], thread[t].value) => AllAre(new, thread[t].value)
    BY <2>2, <2>4, AllAreWritten
  <2>6. new \in Blocks /\ Len(new) > thread[t].offset
    BY <2>2, <2>4, WriteAtType
  <2> HIDE DEF new, state
  <2>7. \A i \in Inodes : data'[i] = IF i = thread[t].inode THEN new ELSE data[i]
    BY <2>1 DEF TypeOK
  <2>8. \A i \in Inodes : AllAre(data[i], thread[t].value) => AllAre(data'[i], thread[t].value)
    BY <2>5, <2>7
  <2>9. state.offset <= Len(data'[state.inode])
    <3>1. Len(new) \in Nat /\ thread[t].offset \in Nat
      BY <2>2, <2>6 DEF Blocks
    <3> QED BY <2>2, <2>3, <2>6, <2>7, <3>1
  <2>10. thread[t].pc \in WriterPcs /\ state.pc \in WriterPcs
    BY <2>1, <2>3 DEF WriterPcs
  <2> QED BY <2>1, <2>3, <2>8, <2>9, <2>10, KeepsWriter
<1>2. CASE PutClose(t) \/ PutError(t)
  <2>1. PICK pc \in {"unlink", "index"} : Goto(t, [thread[t] EXCEPT !.pc = pc])
    BY <1>2 DEF PutClose, PutError
  <2>2. thread[t].pc \in WriterPcs /\ UNCHANGED <<name, data, index, version, due>>
    BY <1>2 DEF PutClose, PutError, WriterPcs, ghosts
  <2> DEFINE state == [thread[t] EXCEPT !.pc = pc]
  <2>3. state.pc = pc /\ state.value = thread[t].value
    BY <2>2, WriterType
  <2>4. Goto(t, state) /\ state.pc \in WriterPcs /\ state.pc # "write"
    BY <2>1, <2>3 DEF WriterPcs
  <2> HIDE DEF state
  <2> QED BY <2>2, <2>3, <2>4, KeepsWriter
<1> QED BY <1>1, <1>2

(* A put begins: gets under way that have another version lose it.         *)
LEMMA PutBegins ==
  ASSUME MaxWriters = 1, TypeOK, VersionInv,
         NEW t \in Threads, NEW v \in Values, PutCreate(t, v)
  PROVE  VersionInv'
<1> DEFINE inode == IF name = 0 THEN ops + 1 ELSE name
           state == [pc |-> "write", value |-> v, inode |-> inode, offset |-> 0]
<1>1. /\ Goto(t, state) /\ name' = inode /\ index' = index
      /\ data' = [data EXCEPT ![inode] = << >>]
      /\ Cardinality(Writers) < MaxWriters
      /\ version' = Merge(version, v)
      /\ due' = [u \in Threads |-> IF Getting(u) THEN Merge(due[u], v) ELSE due[u]]
  BY DEF PutCreate
<1>2. inode \in Inodes
  BY ValuesAssumption DEF PutCreate, Begin, TypeOK, Inodes
<1>3. state.pc = "write" /\ state.value = v /\ state.offset = 0 /\ state.inode = inode
  OBVIOUS
<1> HIDE DEF inode, state
<1>4. Writers = {}
  <2>1. IsFiniteSet(Writers)
    BY ValuesAssumption, FS_Subset DEF Writers
  <2>2. Cardinality(Writers) \in Nat
    BY <2>1, FS_CardinalityType
  <2>3. Cardinality(Writers) = 0
    BY <1>1, <2>2
  <2> QED BY <2>1, <2>3, FS_EmptySet
<1>5. /\ \A u \in Threads : thread'[u] = IF u = t THEN state ELSE thread[u]
      /\ Writers' = {t} /\ thread'[t] = state
  <2>1. /\ \A u \in Threads : thread'[u] = IF u = t THEN state ELSE thread[u]
        /\ Writers = {u \in Threads : thread[u].pc \in WriterPcs}
        /\ Writers' = {u \in Threads : thread'[u].pc \in WriterPcs}
    BY <1>1, GotoMoves
  <2> QED BY <1>3, <1>4, <2>1 DEF WriterPcs
<1>6. \A i \in Inodes : data'[i] = IF i = inode THEN << >> ELSE data[i]
  BY <1>1 DEF TypeOK
<1>7. \A x : AllAre(<< >>, x)
  BY DEF AllAre
<1>8. OneWriter'
  <2>1. \A u \in Threads : thread'[u].pc = "write" => u = t
    <3>1. Writers' = {u \in Threads : thread'[u].pc \in WriterPcs}
      BY <1>1, GotoMoves
    <3> QED BY <1>5, <3>1 DEF WriterPcs
  <2>2. Len(data'[inode]) = 0
    BY <1>2, <1>6
  <2> QED BY <1>3, <1>5, <2>1, <2>2 DEF OneWriter
<1>9. VersionKept'
  <2>1. version' # 0 /\ (version' \in Values => version' = v /\ version \in {0, v})
    BY <1>1, MergeType DEF TypeOK
  <2>2. version' \in Values => index' \in {-1, SizeOf[v]}
    BY <1>1, <2>1 DEF VersionInv, VersionKept
  <2>3. AllAre(data'[name'], v)
    BY <1>1, <1>2, <1>6, <1>7
  <2> QED BY <1>3, <1>5, <2>1, <2>2, <2>3 DEF VersionKept
<1>10. ASSUME NEW u \in Threads PROVE GetKept(thread[u], due[u])'
  <2>0. due'[u] = IF Getting(u) THEN Merge(due[u], v) ELSE due[u]
    BY <1>1
  <2>1. CASE u = t
    BY <1>3, <1>5, <2>1 DEF GetKept
  <2>2. CASE u # t
    <3>1. thread'[u] = thread[u] /\ GetKept(thread[u], due[u]) /\ due[u] \in Versions
      BY <1>5, <2>2 DEF VersionInv, GetsKept, TypeOK
    <3>2. CASE Getting(u)
      <4>1. /\ due[u] # 0 /\ due'[u] # 0
            /\ due'[u] \in Values => due'[u] = v /\ due[u] = v
        BY <2>0, <3>1, <3>2, MergeType DEF GetKept, Getting
      <4>2. \A w \in Writers' : thread'[w].value = v
        BY <1>3, <1>5
      <4>3. AllAre(data'[name'], v)
        BY <1>1, <1>2, <1>6, <1>7
      <4>4. due'[u] \in Values /\ thread[u].pc = "stream" => AllAre(data'[thread[u].inode], v)
        <5>1. thread[u].pc = "stream" => thread[u].inode \in Inodes
          BY DEF TypeOK, ThreadState
        <5> QED BY <1>6, <1>7, <3>1, <4>1, <5>1 DEF GetKept
      <4> QED BY <3>1, <3>2, <4>1, <4>2, <4>3, <4>4 DEF GetKept, Getting
    <3>3. CASE ~ Getting(u)
      BY <2>0, <3>1, <3>3 DEF GetKept, Getting
    <3> QED BY <3>2, <3>3
  <2> QED BY <2>1, <2>2
<1>11. NeverMixed'
  <2> SUFFICES ASSUME OneVersion PROVE version' # Mixed /\ \A u \in Threads : due'[u] # Mixed
    BY DEF NeverMixed, OneVersion
  <2>1. ASSUME NEW d \in Versions, d # Mixed PROVE Merge(d, v) # Mixed
    <3>1. d \in {0, v}
      BY <2>1 DEF Versions, OneVersion
    <3> QED BY <3>1, ValuesAssumption DEF Merge, Mixed
  <2> QED BY <1>1, <2>1 DEF VersionInv, NeverMixed, TypeOK
<1> QED BY <1>8, <1>9, <1>10, <1>11 DEF VersionInv, GetsKept

LEMMA CrashKeepsVersion ==
  ASSUME TypeOK, VersionInv, Crash \/ PowerLoss
  PROVE  VersionInv'
<1>1. /\ \A u \in Threads : thread'[u] = Idle
      /\ UNCHANGED <<name, index, version, due>>
  BY DEF Crash, PowerLoss, ghosts
<1>2. Writers' = {} /\ OneWriter'
  BY <1>1 DEF Writers, OneWriter, Idle
<1>3. GetsKept'
  BY <1>1 DEF GetsKept, GetKept, Idle
<1>4. version \in Values /\ name # 0 => AllAre(data'[name], version)
  <2>1. CASE Crash
    BY <2>1 DEF Crash, VersionInv, VersionKept
  <2>2. CASE PowerLoss
    <3>1. PICK m \in 0..(Len(data[name]) - 1) :
            data' = [data EXCEPT ![name] = SubSeq(data[name], 1, m)]
      BY <2>2 DEF PowerLoss
    <3>2. name \in Inodes /\ data[name] \in Blocks
      BY <2>2 DEF PowerLoss, TypeOK, Inodes
    <3>3. m \in 0..Len(data[name])
      BY <3>2 DEF Blocks
    <3>4. version \in Values => AllAre(SubSeq(data[name], 1, m), version)
      BY <2>2, <3>2, <3>3, AllAreCut DEF PowerLoss, VersionInv, VersionKept
    <3> QED BY <3>1, <3>2, <3>4 DEF TypeOK
  <2> QED BY <2>1, <2>2
<1>5. VersionKept'
  BY <1>1, <1>2, <1>4 DEF VersionInv, VersionKept
<1> QED BY <1>1, <1>2, <1>3, <1>5 DEF VersionInv, NeverMixed

LEMMA NextVersion ==
  ASSUME MaxWriters = 1
  PROVE  TypeOK /\ LatestInv /\ VersionInv /\ [Next]_vars => VersionInv'
<1> SUFFICES ASSUME TypeOK, LatestInv, VersionInv, [Next]_vars PROVE VersionInv'
  OBVIOUS
<1>1. CASE UNCHANGED vars
  BY <1>1 DEF vars, ghosts, VersionInv, OneWriter, VersionKept, GetsKept, GetKept, NeverMixed,
              Writers
<1> QED BY <1>1, GetsGoOn, PutOrDeleteEnds, PutGoesOn, PutBegins, CrashKeepsVersion DEF Next

LEMMA InitVersion == Init => VersionInv
<1> SUFFICES ASSUME Init PROVE VersionInv
  OBVIOUS
<1>1. 0 \notin Values /\ 0 # Mixed
  BY ValuesAssumption DEF Mixed
<1>2. Writers = {} /\ OneWriter
  BY DEF Init, Writers, OneWriter, Idle
<1>3. VersionKept /\ NeverMixed
  BY <1>1, <1>2 DEF Init, VersionKept, NeverMixed
<1>4. GetsKept
  BY DEF Init, GetsKept, GetKept, Idle
<1> QED BY <1>2, <1>3, <1>4 DEF VersionInv

(* As long as puts of the fragment come one at a time, a get that ends     *)
(* without an error returns the version it began with, if no put of        *)
(* another value began before it ended: for any values, numbers of         *)
(* requests, failures, deletes, crashes and power losses.                  *)
THEOREM GetsReturnTheVersion == ASSUME MaxWriters = 1 PROVE Spec => []ReadsReturnVersion
<1>1. Init => LatestInv /\ VersionInv
  <2>1. Init => LatestInv
    BY DEF Init, Idle, LatestInv, AckedPutIsReadable
  <2> QED BY <2>1, InitVersion
<1>2. TypeOK /\ LatestInv /\ VersionInv /\ [Next]_vars => LatestInv' /\ VersionInv'
  BY NextLatest, NextVersion
<1>3. VersionInv => ReadsReturnVersion
  BY DEF VersionInv, GetsKept, GetKept, ReadsReturnVersion
<1> QED BY <1>1, <1>2, <1>3, EngineTypesCorrect, PTL DEF Spec

(* When moreover every put of the fragment stores the same bytes, as in    *)
(* repair and rebalancing of a committed fragment, every get without an    *)
(* error has returned the whole value: no overlapping delete, failure,     *)
(* crash or power loss makes it short or leaves a hole in it.              *)
THEOREM SameBytesAreReadWhole == ASSUME OneVersion PROVE Spec => []ReadsAreWhole
<1>0. MaxWriters = 1
  BY DEF OneVersion
<1>1. Init => LatestInv /\ VersionInv
  <2>1. Init => LatestInv
    BY DEF Init, Idle, LatestInv, AckedPutIsReadable
  <2> QED BY <2>1, InitVersion
<1>2. TypeOK /\ LatestInv /\ VersionInv /\ [Next]_vars => LatestInv' /\ VersionInv'
  BY <1>0, NextLatest, NextVersion
<1>3. TypeOK /\ VersionInv => ReadsAreWhole
  <2> SUFFICES ASSUME TypeOK, VersionInv, NEW t \in Threads, thread[t].pc = "whole"
               PROVE  \E v \in Values : thread[t].got = Content(v)
    BY DEF ReadsAreWhole
  <2>1. due[t] \in Values
    BY DEF VersionInv, GetsKept, GetKept, NeverMixed, TypeOK, Versions
  <2>2. thread[t].got = Content(due[t])
    BY <2>1 DEF VersionInv, GetsKept, GetKept
  <2> QED BY <2>1, <2>2
<1> QED BY <1>1, <1>2, <1>3, EngineTypesCorrect, PTL DEF Spec
=============================================================================
