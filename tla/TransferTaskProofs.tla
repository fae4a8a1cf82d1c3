-------------------------- MODULE TransferTaskProofs --------------------------
(***************************************************************************)
(* Proofs about TransferTask, for any share, batches, depth of a split and *)
(* bounds: the types, and that a transfer that did not fail has saved      *)
(* every selected file that was listed, or says that it has not.           *)
(***************************************************************************)
EXTENDS TransferTask, FiniteSetTheorems, TLAPS

-----------------------------------------------------------------------------
(* The files under nodes.                                                  *)

\* The sets of nodes that hold the children of their members.
Closed(S) == S \in SUBSET Nodes /\ \A m \in S : Tree[m] \subseteq S

\* More nodes have more files.
LEMMA FilesGrow ==
    ASSUME NEW A, NEW B, A \subseteq B
    PROVE  Files(A) \subseteq Files(B)
BY DEF Files

\* No nodes, no files.
LEMMA FilesOfNone == Files({}) = {}
<1>1. ASSUME NEW n \in Files({}) PROVE FALSE
  <2>1. {} \in SUBSET Nodes /\ \A m \in {} : Tree[m] \subseteq {}
    OBVIOUS
  <2> QED BY <1>1, <2>1 DEF Files
<1> QED BY <1>1

\* The files under two sets of nodes are those under the one or the other.
LEMMA FilesOfBoth ==
    ASSUME NEW A, NEW B
    PROVE  Files(A \cup B) \subseteq Files(A) \cup Files(B)
<1>1. ASSUME NEW n \in Files(A \cup B), n \notin Files(A), n \notin Files(B) PROVE FALSE
  <2>1. n \in Nodes /\ Tree[n] = {}
    BY <1>1 DEF Files
  <2>2. PICK S : Closed(S) /\ A \subseteq S /\ n \notin S
    BY <1>1, <2>1 DEF Files, Closed
  <2>3. PICK T : Closed(T) /\ B \subseteq T /\ n \notin T
    BY <1>1, <2>1 DEF Files, Closed
  <2>4. Closed(S \cup T) /\ A \cup B \subseteq S \cup T /\ n \notin S \cup T
    BY <2>2, <2>3 DEF Closed
  <2> QED BY <1>1, <2>4 DEF Files, Closed
<1> QED BY <1>1

\* A directory has the files under its children.
LEMMA FilesOfDir ==
    ASSUME NEW d \in Nodes, Tree[d] # {}, NEW A
    PROVE  Files({d} \cup A) \subseteq Files(Tree[d] \cup A)
<1>1. ASSUME NEW n \in Files({d} \cup A), n \notin Files(Tree[d] \cup A) PROVE FALSE
  <2>1. n \in Nodes /\ Tree[n] = {}
    BY <1>1 DEF Files
  <2>2. PICK S : Closed(S) /\ Tree[d] \cup A \subseteq S /\ n \notin S
    BY <1>1, <2>1 DEF Files, Closed
  <2>3. Closed({d} \cup S) /\ {d} \cup A \subseteq {d} \cup S /\ n \notin {d} \cup S
    BY <2>1, <2>2 DEF Closed
  <2> QED BY <1>1, <2>3 DEF Files, Closed
<1> QED BY <1>1

-----------------------------------------------------------------------------
(* The types.                                                              *)

ExecPC == {"off", "queued", "listing", "preparing", "batches", "submitting", "splitting",
           "merging", "rejecting", "marking", "creating", "downloading", "storing",
           "watching", "persisting", "failing", "cleaning"}
Pieces == [items : SUBSET Nodes, depth : 0..MaxDepth]

ExecRec == [pc : ExecPC, picked : SUBSET Nodes, next : 1..Len(Batches) + 1,
            stack : Seq(Pieces), got : SUBSET Nodes, bad : BOOLEAN, won : BOOLEAN, lost : BOOLEAN, todo : SUBSET Nodes,
            made : SUBSET Nodes]
TaskRec == [listed : BOOLEAN, status : Statuses, token : BOOLEAN, warned : BOOLEAN,
            ids : SUBSET Nodes, timed : BOOLEAN]
MetaRec == [kept : BOOLEAN, complete : BOOLEAN, status : Statuses \cup {"none"},
            ids : SUBSET Nodes, warned : BOOLEAN]
WatchRec == [pc : {"off", "polling", "judged", "cleaning", "giving_up", "recleaning"},
             tries : 0..MaxTries, verdict : Statuses \cup {"none"}]
UserRec  == [pc : {"idle", "cancelling", "stopping", "cleaning", "purging"},
             seen : Statuses \cup {"none"}]
Places   == {"none", "running", "paused", "failed", "done", "gone"}

\* A type invariant that is inductive: the execution is a record, and it only submits a
\* batch there is; a judgement is a final status.
Types ==
    /\ kind \in Kinds
    /\ task \in TaskRec
    /\ meta \in MetaRec
    /\ temp \in {"none", "made", "deleted"}
    /\ saved \subseteq Nodes
    /\ cut \subseteq Nodes
    /\ exec \in ExecRec
    /\ exec.pc \in {"submitting", "splitting"} => exec.next <= Len(Batches)
    /\ watch \in WatchRec
    /\ watch.pc = "judged" => watch.verdict \in Final
    /\ user \in UserRec
    /\ download \in [Nodes -> Places]
    /\ mishaps \in 0..MaxMishaps /\ whims \in 0..MaxWhims

\* Types has every conjunct of the type invariant.
LEMMA TypesOK == Types => TypeOK
BY DEF Types, TypeOK, ExecRec, ExecPC, Pieces, TaskRec, MetaRec, WatchRec, UserRec, Places

\* The selection is a set of nodes, batch by batch.
LEMMA BatchNodes == ASSUME NEW i \in 1..Len(Batches) PROVE Batches[i] \in SUBSET Nodes
BY TransferAssumption

LEMMA BatchCount == Len(Batches) \in Nat
BY TransferAssumption

LEMMA SelectedNodes == Selected \in SUBSET Nodes
<1>1. DOMAIN Batches = 1..Len(Batches)
  BY TransferAssumption
<1> QED BY <1>1, BatchNodes DEF Selected

\* The initial state is typed.
LEMMA InitTypes == Init => Types
<1> SUFFICES ASSUME Init PROVE Types
  OBVIOUS
<1>1. 1 \in 1..Len(Batches) + 1
  BY BatchCount
<1>2. <<>> \in Seq(Pieces)
  OBVIOUS
<1>3. exec \in ExecRec /\ exec.pc = "queued"
  BY <1>1, <1>2 DEF Init, NoExec, ExecRec, ExecPC
<1>4. task \in TaskRec /\ meta \in MetaRec
  BY DEF Init, Gone, TaskRec, MetaRec, Statuses
<1>5. watch \in WatchRec /\ watch.pc = "off" /\ user \in UserRec
  BY TransferAssumption DEF Init, NoWatch, NoCall, WatchRec, UserRec
<1>6. 0 \in 0..MaxMishaps /\ 0 \in 0..MaxWhims
  BY TransferAssumption
<1> QED BY <1>3, <1>4, <1>5, <1>6 DEF Init, Types, Places

\* The helpers of the actions keep the types of what they write.
LEMMA GoesTyped ==
    ASSUME Types, NEW pc \in ExecPC, Goes(pc),
           pc \in {"submitting", "splitting"} => exec.next <= Len(Batches)
    PROVE  /\ exec' \in ExecRec
           /\ exec'.pc \in {"submitting", "splitting"} => exec'.next <= Len(Batches)
BY DEF Types, Goes, ExecRec

LEMMA MarksTyped ==
    ASSUME Types, NEW status \in Statuses, Marks(status)
    PROVE  task' \in TaskRec
BY DEF Types, Marks, TaskRec

LEMMA StoresTyped ==
    ASSUME Types, NEW status \in Statuses, Stores(status) \/ Archives(status)
    PROVE  meta' \in MetaRec
BY DEF Types, Stores, Archives, MetaRec

LEMMA WatcherTyped ==
    ASSUME Types, NEW pc \in {"off", "polling", "cleaning", "giving_up", "recleaning"},
           WatcherGoes(pc)
    PROVE  watch' \in WatchRec /\ watch'.pc # "judged"
BY DEF Types, WatcherGoes, WatchRec

LEMMA CallsTyped ==
    ASSUME Types, NEW pc \in {"idle", "cancelling", "stopping", "cleaning", "purging"}, Calls(pc)
    PROVE  user' \in UserRec
BY DEF Types, Calls, UserRec

\* What no part of the execution but StartWatcher touches.
Beside == /\ kind \in Kinds
          /\ watch \in WatchRec
          /\ watch.pc = "judged" => watch.verdict \in Final
          /\ user \in UserRec
          /\ mishaps \in 0..MaxMishaps /\ whims \in 0..MaxWhims

LEMMA BesideKept ==
    ASSUME Types, UNCHANGED <<kind, watch, user, bounds>>
    PROVE  Beside'
BY DEF Types, Beside, bounds

\* The statuses the actions write.
LEMMA SomeStatuses ==
    {"queued", "checking_share", "transferring", "downloading", "cleaning", "transferred",
     "transfer_failed", "download_failed", "completed"} = Statuses
BY DEF Statuses, Final

\* The parts of the execution that only move on.
LEMMA ExecuteTypes ==
    ASSUME Types,
           \/ Check \/ List \/ MakeDir \/ NextBatch \/ Merge \/ Reject \/ RejectCleans
           \/ Mark \/ StartDownloads \/ StoreStatus \/ Persist \/ Fail
    PROVE  Types'
<1>0. Beside' /\ saved' \subseteq Nodes /\ download' \in [Nodes -> Places]
  BY BesideKept DEF Types, Check, List, MakeDir, NextBatch, Merge, Reject, RejectCleans, Mark,
     StartDownloads, StoreStatus, Persist, Fail, execOnly
<1>a. List \/ cut' = cut
  BY DEF Check, MakeDir, NextBatch, Merge, Reject, RejectCleans, Mark, StartDownloads,
     StoreStatus, Persist, Fail, execOnly
<1>b. cut' \subseteq Nodes
  <2>1. CASE List
    BY <2>1, SelectedNodes DEF List, Types
  <2> QED BY <1>a, <2>1 DEF Types
<1>1. ASSUME exec' \in ExecRec,
             exec'.pc \in {"submitting", "splitting"} => exec'.next <= Len(Batches),
             task' \in TaskRec, meta' \in MetaRec, temp' \in {"none", "made", "deleted"}
      PROVE  Types'
  BY <1>0, <1>b, <1>1 DEF Types, Beside
<1>2. CASE Check
  <2>1. PICK pc \in {"off", "listing", "failing"} : Goes(pc)
    BY <1>2 DEF Check
  <2>2. task' \in TaskRec
    BY <1>2, MarksTyped, SomeStatuses DEF Check, Types
  <2>3. UNCHANGED <<meta, temp>>
    BY <1>2 DEF Check
  <2> QED BY <1>1, <2>1, <2>2, <2>3, GoesTyped DEF ExecPC, Types
<1>3. CASE List
  <2>1. PICK pc \in {"off", "preparing", "failing"} :
            \/ Goes(pc)
            \/ \E missed \in SUBSET Selected :
                  exec' = [exec EXCEPT !.picked = Selected \ missed, !.pc = pc]
    BY <1>3 DEF List
  <2>2. task' \in TaskRec /\ meta' \in MetaRec
    BY <1>3, MarksTyped, StoresTyped, SomeStatuses DEF List, Types
  <2>3. UNCHANGED temp
    BY <1>3 DEF List
  <2>4. /\ exec' \in ExecRec
        /\ exec'.pc \in {"submitting", "splitting"} => exec'.next <= Len(Batches)
    <3>1. CASE Goes(pc)
      BY <2>1, <3>1, GoesTyped DEF ExecPC
    <3>2. ASSUME NEW missed \in SUBSET Selected,
                 exec' = [exec EXCEPT !.picked = Selected \ missed, !.pc = pc]
          PROVE  exec' \in ExecRec /\ exec'.pc = pc
      BY <2>1, <3>2, SelectedNodes DEF Types, ExecRec, ExecPC
    <3> QED BY <2>1, <3>1, <3>2
  <2> QED BY <1>1, <2>2, <2>3, <2>4 DEF Types
<1>4. CASE MakeDir
  <2>1. PICK pc \in {"batches", "failing"} : Goes(pc)
    BY <1>4 DEF MakeDir
  <2>2. UNCHANGED <<task, meta>> /\ temp' \in {"made", temp}
    BY <1>4 DEF MakeDir
  <2> QED BY <1>1, <2>1, <2>2, GoesTyped DEF ExecPC, Types
<1>5. CASE NextBatch
  <2>1. PICK pc \in {"merging", "submitting"} :
            Goes(pc) /\ (pc = "submitting" => ~(exec.next > Len(Batches)))
    BY <1>5 DEF NextBatch
  <2>2. exec.next \in Nat
    BY BatchCount DEF Types, ExecRec
  <2>3. UNCHANGED <<task, meta, temp>>
    BY <1>5 DEF NextBatch
  <2>4. pc \in {"submitting", "splitting"} => exec.next <= Len(Batches)
    BY <2>1, <2>2, BatchCount
  <2> QED BY <1>1, <2>1, <2>3, <2>4, GoesTyped DEF ExecPC, Types
<1>6. CASE Merge
  <2>1. PICK pc \in {"rejecting", "creating", "marking"} : Goes(pc)
    BY <1>6 DEF Merge
  <2>2. task' \in TaskRec /\ meta' \in MetaRec
    BY <1>6 DEF Merge, Types, TaskRec, MetaRec, ExecRec
  <2>3. UNCHANGED temp
    BY <1>6 DEF Merge
  <2> QED BY <1>1, <2>1, <2>2, <2>3, GoesTyped DEF ExecPC, Types
<1>7. CASE Reject \/ Mark \/ Persist \/ Fail
  <2>1. PICK pc \in {"cleaning", "off"} : Goes(pc)
    BY <1>7 DEF Reject, Mark, Persist, Fail
  <2>2. task' \in TaskRec /\ meta' \in MetaRec
    BY <1>7, MarksTyped, StoresTyped, SomeStatuses DEF Reject, Mark, Persist, Fail, Types
  <2>3. UNCHANGED temp
    BY <1>7 DEF Reject, Mark, Persist, Fail
  <2> QED BY <1>1, <2>1, <2>2, <2>3, GoesTyped DEF ExecPC, Types
<1>8. CASE RejectCleans
  <2>1. Goes("off") /\ temp' \in {"none", "made", "deleted"} /\ UNCHANGED <<task, meta>>
    BY <1>8 DEF RejectCleans, Cleans, Types
  <2> QED BY <1>1, <2>1, GoesTyped DEF ExecPC, Types
<1>9. CASE StartDownloads
  <2>1. PICK pc \in {"failing", "persisting", "downloading"} :
            Goes(pc) \/ exec' = [exec EXCEPT !.pc = pc, !.todo = saved]
    BY <1>9 DEF StartDownloads
  <2>2. /\ exec' \in ExecRec
        /\ exec'.pc \in {"submitting", "splitting"} => exec'.next <= Len(Batches)
    <3>1. CASE Goes(pc)
      BY <2>1, <3>1, GoesTyped DEF ExecPC
    <3>2. CASE exec' = [exec EXCEPT !.pc = pc, !.todo = saved]
      BY <2>1, <3>2 DEF Types, ExecRec, ExecPC
    <3> QED BY <2>1, <3>1, <3>2
  <2>3. task' \in TaskRec
    BY <1>9, MarksTyped, SomeStatuses DEF StartDownloads, Types, TaskRec
  <2>4. UNCHANGED <<meta, temp>>
    BY <1>9 DEF StartDownloads
  <2> QED BY <1>1, <2>2, <2>3, <2>4 DEF Types
<1>10. CASE StoreStatus
  <2>1. Goes("watching") /\ UNCHANGED <<task, temp>> /\ meta' \in MetaRec
    BY <1>10, StoresTyped, SomeStatuses DEF StoreStatus
  <2> QED BY <1>1, <2>1, GoesTyped DEF ExecPC, Types
<1> QED BY <1>2, <1>3, <1>4, <1>5, <1>6, <1>7, <1>8, <1>9, <1>10

\* The batches: what is split stays pieces of the share.
LEMMA BatchEndsTyped ==
    ASSUME Types, NEW nodes \in SUBSET Nodes, NEW bad \in BOOLEAN,
           exec.pc \in {"submitting", "splitting"}, BatchEnds(nodes, bad)
    PROVE  /\ exec' \in ExecRec /\ exec'.pc = "batches"
           /\ saved' \subseteq Nodes
<1>1. exec \in ExecRec /\ exec.next + 1 \in 1..Len(Batches) + 1 /\ <<>> \in Seq(Pieces)
  BY BatchCount DEF Types, ExecRec
<1>2. (exec.won \/ nodes # {}) \in BOOLEAN /\ (exec.lost \/ bad) \in BOOLEAN
  OBVIOUS
<1> DEFINE won  == exec.won \/ nodes # {}
           lost == exec.lost \/ bad
<1>3. exec' = [exec EXCEPT !.pc = "batches", !.next = @ + 1, !.stack = <<>>, !.got = {},
                           !.bad = FALSE, !.won = won, !.lost = lost]
  BY DEF BatchEnds
<1>4. won \in BOOLEAN /\ lost \in BOOLEAN
  BY <1>2
<1> HIDE DEF won, lost
<1>5. exec' \in ExecRec /\ exec'.pc = "batches"
  BY <1>1, <1>3, <1>4 DEF ExecRec, ExecPC
<1> QED BY <1>5 DEF BatchEnds, Types

\* The piece on top of the stack, and the stack below it.
LEMMA StackTyped ==
    ASSUME Types, exec.stack # <<>>
    PROVE  /\ Piece \in Pieces /\ Rest \in Seq(Pieces)
           /\ Len(exec.stack) \in Nat \ {0} /\ Len(Rest) = Len(exec.stack) - 1
           /\ \A i \in 1..Len(Rest) : Rest[i] = exec.stack[i]
<1>1. exec.stack \in Seq(Pieces)
  BY DEF Types, ExecRec
<1>2. Len(exec.stack) \in Nat \ {0}
  BY <1>1
<1>3. Piece \in Pieces
  BY <1>1, <1>2 DEF Piece
<1>4. /\ Rest \in Seq(Pieces) /\ Len(Rest) = Len(exec.stack) - 1
      /\ \A i \in 1..Len(Rest) : Rest[i] = exec.stack[i]
  BY <1>1, <1>2 DEF Rest
<1> QED BY <1>2, <1>3, <1>4

\* A stack of pieces is put in place of the stack.
LEMMA SplitsTyped ==
    ASSUME Types, NEW stack \in Seq(Pieces), Splits(stack)
    PROVE  exec' \in ExecRec /\ exec'.pc = exec.pc /\ exec'.next = exec.next
BY DEF Types, Splits, ExecRec

\* A piece of one item is that item.
LEMMA OneItem ==
    ASSUME NEW items \in SUBSET Nodes, Cardinality(items) = 1
    PROVE  \E n \in items : items = {n} /\ n = CHOOSE m \in items : TRUE
<1>1. IsFiniteSet(items)
  BY TransferAssumption, FS_Subset
<1>2. PICK n : items = {n}
  BY <1>1, FS_Singleton
<1> QED BY <1>2

\* Halving, descending and giving up leave pieces.
LEMMA TooLargeTyped ==
    ASSUME Types, exec.stack # <<>>, TooLarge \/ GivesUp \/ NetdiskFull
    PROVE  /\ exec' \in ExecRec /\ exec'.pc = exec.pc /\ exec'.next = exec.next
           /\ cut' \subseteq Nodes
<1>0. /\ Piece \in Pieces /\ Rest \in Seq(Pieces) /\ exec \in ExecRec
      /\ <<>> \in Seq(Pieces) /\ cut \subseteq Nodes
  BY StackTyped DEF Types
<1>1. CASE GivesUp
  BY <1>0, <1>1 DEF GivesUp, ExecRec
<1>2. CASE NetdiskFull
  BY <1>0, <1>2 DEF NetdiskFull, ExecRec
<1>3. CASE TooLarge
  <2> DEFINE Sub(s) == [items |-> s, depth |-> Piece.depth + 1]
  <2>1. ASSUME Piece.depth < MaxDepth, NEW s \in SUBSET Nodes PROVE Sub(s) \in Pieces
    BY <1>0, <2>1, TransferAssumption DEF Pieces
  <2>2. CASE \E left \in SUBSET Piece.items :
                /\ Piece.depth < MaxDepth /\ cut' = cut
                /\ Splits(Rest \o <<Sub(Piece.items \ left), Sub(left)>>)
    <3>1. PICK left \in SUBSET Piece.items :
              /\ Piece.depth < MaxDepth /\ cut' = cut
              /\ Splits(Rest \o <<Sub(Piece.items \ left), Sub(left)>>)
      BY <2>2
    <3>2. Sub(Piece.items \ left) \in Pieces /\ Sub(left) \in Pieces
      BY <1>0, <2>1, <3>1 DEF Pieces
    <3> HIDE DEF Sub
    <3>3. Rest \o <<Sub(Piece.items \ left), Sub(left)>> \in Seq(Pieces)
      BY <1>0, <3>2
    <3> QED BY <1>0, <3>1, <3>3, SplitsTyped
  <2>3. CASE \E n \in Piece.items : \E part \in SUBSET Tree[n] :
                /\ Piece.depth < MaxDepth /\ Splits(Append(Rest, Sub(part)))
                /\ cut' = cut \cup (Tree[n] \ part)
    <3>0. PICK n \in Piece.items : \E part \in SUBSET Tree[n] :
                /\ Piece.depth < MaxDepth /\ Splits(Append(Rest, Sub(part)))
                /\ cut' = cut \cup (Tree[n] \ part)
      BY <2>3
    <3>1. PICK part \in SUBSET Tree[n] :
                /\ Piece.depth < MaxDepth /\ Splits(Append(Rest, Sub(part)))
                /\ cut' = cut \cup (Tree[n] \ part)
      BY <3>0
    <3>2. Tree[n] \in SUBSET Nodes
      BY <1>0, TransferAssumption DEF Pieces
    <3>3. Sub(part) \in Pieces
      BY <2>1, <3>1, <3>2
    <3> HIDE DEF Sub
    <3>4. Append(Rest, Sub(part)) \in Seq(Pieces)
      BY <1>0, <3>3
    <3> QED BY <1>0, <3>1, <3>2, <3>4, SplitsTyped
  <2>4. \/ GivesUp
        \/ \E left \in SUBSET Piece.items :
                /\ Piece.depth < MaxDepth /\ cut' = cut
                /\ Splits(Rest \o <<Sub(Piece.items \ left), Sub(left)>>)
        \/ \E n \in Piece.items : \E part \in SUBSET Tree[n] :
                /\ Piece.depth < MaxDepth /\ Splits(Append(Rest, Sub(part)))
                /\ cut' = cut \cup (Tree[n] \ part)
    BY <1>0, <1>3, OneItem DEF TooLarge, Pieces
  <2> QED BY <1>1, <2>2, <2>3, <2>4
<1> QED BY <1>1, <1>2, <1>3

\* The execution submits, splits and ends its batches.
LEMMA BatchTypes ==
    ASSUME Types, SubmitBatch \/ SplitBatch \/ SplitEnds
    PROVE  Types'
<1>0. /\ Beside' /\ task' \in TaskRec /\ meta' \in MetaRec
      /\ download' \in [Nodes -> Places]
  BY BesideKept DEF Types, SubmitBatch, SplitBatch, SplitEnds
<1>1. ASSUME exec' \in ExecRec, temp' \in {"none", "made", "deleted"}, saved' \subseteq Nodes,
             cut' \subseteq Nodes, exec'.pc \in {"submitting", "splitting"} => exec'.next <= Len(Batches)
      PROVE  Types'
  BY <1>0, <1>1 DEF Types, Beside
<1>2. ASSUME Lands \/ temp' = temp PROVE temp' \in {"none", "made", "deleted"}
  BY <1>2 DEF Lands, Types
<1>3. ASSUME exec.pc \in {"submitting", "splitting"}, NEW nodes \in SUBSET Nodes,
             NEW bad \in BOOLEAN, BatchEnds(nodes, bad), Lands \/ temp' = temp, cut' = cut
      PROVE  Types'
  BY <1>1, <1>2, <1>3, BatchEndsTyped DEF Types
<1>4. CASE SubmitBatch
  <2>1. exec.pc = "submitting" /\ exec.next \in 1..Len(Batches)
    BY <1>4, BatchCount DEF SubmitBatch, Types, ExecRec
  <2>2. Batch \in SUBSET Nodes /\ cut' = cut
    BY <1>4, <2>1, BatchNodes DEF Batch, SubmitBatch
  <2>3. CASE \/ BatchEnds(Batch, FALSE) /\ Lands
             \/ BatchEnds({}, FALSE) /\ UNCHANGED temp
             \/ BatchEnds({}, TRUE) /\ UNCHANGED temp
    BY <1>3, <2>1, <2>2, <2>3
  <2>4. CASE /\ exec' = [exec EXCEPT !.pc = "splitting",
                            !.stack = <<[items |-> Batch, depth |-> 0]>>]
             /\ UNCHANGED <<saved, temp>>
    <3>1. [items |-> Batch, depth |-> 0] \in Pieces
      BY <2>2, TransferAssumption DEF Pieces
    <3>2. <<[items |-> Batch, depth |-> 0]>> \in Seq(Pieces)
      BY <3>1
    <3>3. exec' \in ExecRec /\ exec'.next = exec.next
      BY <2>4, <3>2 DEF Types, ExecRec, ExecPC
    <3> QED BY <1>1, <2>1, <2>2, <2>4, <3>3, BatchCount DEF Types
  <2> QED BY <1>4, <2>3, <2>4 DEF SubmitBatch
<1>5. CASE SplitBatch
  <2>1. exec.pc = "splitting" /\ exec.stack # <<>> /\ exec.next <= Len(Batches)
    BY <1>5 DEF SplitBatch, Types
  <2>2. CASE /\ exec' = [exec EXCEPT !.stack = Rest, !.got = @ \cup Piece.items]
             /\ Lands /\ UNCHANGED <<saved, cut>>
    <3>1. Rest \in Seq(Pieces) /\ Piece.items \in SUBSET Nodes
      BY <2>1, StackTyped DEF Pieces
    <3>2. exec' \in ExecRec /\ exec'.next = exec.next
      BY <2>2, <3>1 DEF Types, ExecRec
    <3> QED BY <1>1, <1>2, <2>1, <2>2, <3>2 DEF Types
  <2>3. CASE (TooLarge \/ GivesUp \/ NetdiskFull) /\ UNCHANGED <<saved, temp>>
    BY <1>1, <1>2, <2>1, <2>3, TooLargeTyped DEF Types
  <2>4. CASE BatchEnds({}, TRUE) /\ UNCHANGED <<temp, cut>>
    BY <1>3, <2>1, <2>4
  <2> QED BY <1>5, <2>2, <2>3, <2>4 DEF SplitBatch
<1>6. CASE SplitEnds
  <2>1. /\ exec.pc = "splitting" /\ exec.got \in SUBSET Nodes /\ exec.bad \in BOOLEAN
        /\ BatchEnds(exec.got, exec.bad) /\ temp' = temp /\ cut' = cut
    BY <1>6 DEF SplitEnds, Types, ExecRec
  <2> QED BY <1>3, <2>1
<1> QED BY <1>4, <1>5, <1>6

\* The downloads and the watcher are started.
LEMMA DownloadingTypes ==
    ASSUME Types, CreateDownload \/ MarkDownloading \/ StartWatcher
    PROVE  Types'
<1>0. exec \in ExecRec /\ task \in TaskRec /\ meta \in MetaRec /\ download \in [Nodes -> Places]
  BY DEF Types
<1>1. CASE CreateDownload
  <2>0. exec.pc = "downloading" /\ UNCHANGED <<kind, task, meta, temp, saved, cut, watch, user, bounds>>
    BY <1>1, Zenon DEF CreateDownload
  <2>1. PICK n \in exec.todo :
            \/ /\ exec' = [exec EXCEPT !.todo = @ \ {n}, !.made = @ \cup {n}]
               /\ download' = [download EXCEPT ![n] = "running"]
            \/ exec' = [exec EXCEPT !.todo = @ \ {n}] /\ UNCHANGED download
    BY <1>1, Zenon DEF CreateDownload
  <2>2. n \in Nodes /\ exec.todo \ {n} \in SUBSET Nodes /\ exec.made \cup {n} \in SUBSET Nodes
    BY <1>0 DEF ExecRec
  <2>3. exec' \in ExecRec /\ exec'.pc = exec.pc /\ exec'.next = exec.next
    BY <1>0, <2>1, <2>2 DEF ExecRec
  <2>4. download' \in [Nodes -> Places]
    BY <1>0, <2>1, <2>2 DEF Places
  <2> QED BY <2>0, <2>3, <2>4 DEF Types, bounds
<1>2. CASE MarkDownloading
  <2>1. PICK pc \in {"persisting", "storing"} : Goes(pc)
    BY <1>2 DEF MarkDownloading
  <2>2. /\ exec' \in ExecRec
        /\ exec'.pc \in {"submitting", "splitting"} => exec'.next <= Len(Batches)
    BY <2>1, GoesTyped DEF ExecPC
  <2>3. meta' \in MetaRec
    BY <1>0, <1>2, StoresTyped, SomeStatuses DEF MarkDownloading
  <2>4. task' \in TaskRec
    <3>1. CASE exec.made = {}
      BY <1>2, <3>1, MarksTyped, SomeStatuses DEF MarkDownloading
    <3>2. CASE exec.made # {}
      BY <1>0, <1>2, <3>2, SomeStatuses DEF MarkDownloading, TaskRec, ExecRec
    <3> QED BY <3>1, <3>2
  <2> QED BY <1>2, <2>2, <2>3, <2>4 DEF MarkDownloading, execOnly, Types, bounds
<1>3. CASE StartWatcher
  <2>1. /\ exec' \in ExecRec
        /\ exec'.pc \in {"submitting", "splitting"} => exec'.next <= Len(Batches)
    BY <1>3, GoesTyped DEF StartWatcher, ExecPC
  <2>2. meta' \in MetaRec
    BY <1>0, <1>3 DEF StartWatcher, MetaRec, ExecRec
  <2>3. watch' \in WatchRec /\ watch'.pc = "polling"
    BY <1>3, TransferAssumption DEF StartWatcher, NoWatch, WatchRec
  <2> QED BY <1>3, <2>1, <2>2, <2>3 DEF StartWatcher, Types, bounds
<1> QED BY <1>1, <1>2, <1>3

\* The verdict over the downloads of the task is to keep on polling or final.
LEMMA VerdictFinal == Verdict \in Final \cup {"none"}
BY DEF Verdict, Final

\* What the watcher leaves alone.
LEMMA WatchTypes ==
    ASSUME Types, Watch \/ WatcherTimesOut
    PROVE  Types'
<1>0. /\ watch \in WatchRec /\ download \in [Nodes -> Places] /\ task \in TaskRec /\ meta \in MetaRec
      /\ mishaps \in 0..MaxMishaps /\ whims \in 0..MaxWhims
  BY DEF Types
<1>1. UNCHANGED watchOnly
  BY DEF Watch, WatcherLeaves, WatcherTimesOut, RestartFailed, Judge, Conclude, CleanUp, GiveUp,
         CleanAgain
<1>2. ASSUME watch' \in WatchRec, watch'.pc = "judged" => watch'.verdict \in Final,
             task' \in TaskRec, meta' \in MetaRec, temp' \in {"none", "made", "deleted"},
             download' \in [Nodes -> Places], mishaps' \in 0..MaxMishaps, whims' \in 0..MaxWhims
      PROVE  Types'
  BY <1>1, <1>2 DEF Types, watchOnly
<1>3. ASSUME Cleans \/ temp' = temp PROVE temp' \in {"none", "made", "deleted"}
  BY <1>3 DEF Cleans, Types
<1>4. CASE WatcherLeaves
  BY <1>0, <1>2, <1>3, <1>4, WatcherTyped DEF WatcherLeaves, bounds
<1>5. CASE WatcherTimesOut
  <2>1. PICK pc \in {"giving_up", "off"} : WatcherGoes(pc)
    BY <1>5 DEF WatcherTimesOut
  <2>2. mishaps' \in 0..MaxMishaps /\ whims' \in 0..MaxWhims
    BY <1>0, <1>5, TransferAssumption DEF WatcherTimesOut, Mishap
  <2>3. task' \in TaskRec /\ UNCHANGED <<meta, temp, download>>
    BY <1>5, MarksTyped, SomeStatuses DEF WatcherTimesOut
  <2> QED BY <1>0, <1>2, <1>3, <2>1, <2>2, <2>3, WatcherTyped
<1>6. CASE RestartFailed
  <2>1. PICK some : download' = [n \in Nodes |-> IF n \in some THEN "running" ELSE download[n]]
    BY <1>6 DEF RestartFailed
  <2>2. download' \in [Nodes -> Places]
    BY <1>0, <2>1 DEF Places
  <2>3. watch.tries \in 0..MaxTries /\ watch.tries < MaxTries
    BY <1>0, <1>6 DEF RestartFailed, WatchRec
  <2>4. watch.tries + 1 \in 0..MaxTries
    BY <2>3, TransferAssumption
  <2>5. watch' \in WatchRec /\ watch'.pc = "polling"
    BY <1>0, <1>6, <2>4 DEF RestartFailed, WatchRec
  <2> QED BY <1>0, <1>2, <1>3, <1>6, <2>2, <2>5 DEF RestartFailed, bounds
<1>7. CASE Judge
  <2>1. Verdict \in Final
    BY <1>7, VerdictFinal DEF Judge
  <2>2. Verdict \in Statuses \cup {"none"}
    BY <2>1 DEF Statuses
  <2>3. watch' = [watch EXCEPT !.pc = "judged", !.verdict = Verdict]
    BY <1>7 DEF Judge
  <2>4. watch' \in WatchRec /\ watch'.verdict = Verdict
    BY <1>0, <2>2, <2>3 DEF WatchRec
  <2> QED BY <1>0, <1>2, <1>3, <1>7, <2>1, <2>4 DEF Judge, bounds
<1>8. CASE Conclude
  <2>1. PICK pc \in {"cleaning", "giving_up", "off"} : WatcherGoes(pc)
    BY <1>8 DEF Conclude
  <2>2. watch.verdict \in Statuses
    BY <1>8 DEF Conclude, Types, Statuses
  <2>3. task' \in TaskRec
    BY <1>8, <2>2, MarksTyped, SomeStatuses DEF Conclude
  <2>4. meta' \in MetaRec
    <3>1. Archives("completed") \/ Stores("download_failed") \/ Stores("cleaning") \/ UNCHANGED meta
      BY <1>8 DEF Conclude
    <3> QED BY <1>0, <3>1, StoresTyped, SomeStatuses
  <2> QED BY <1>0, <1>2, <1>3, <1>8, <2>1, <2>3, <2>4, WatcherTyped DEF Conclude, bounds
<1>9. CASE CleanUp
  <2>1. download' \in [Nodes -> Places]
    BY <1>0, <1>9 DEF CleanUp, Places
  <2>2. task' \in TaskRec /\ meta' \in MetaRec
    BY <1>9, MarksTyped, StoresTyped, SomeStatuses DEF CleanUp
  <2> QED BY <1>0, <1>2, <1>3, <1>9, <2>1, <2>2, WatcherTyped DEF CleanUp, bounds
<1>10. CASE GiveUp \/ CleanAgain
  <2>1. task' \in TaskRec
    BY <1>0, <1>10, MarksTyped, SomeStatuses DEF GiveUp, CleanAgain
  <2> QED BY <1>0, <1>2, <1>3, <1>10, <2>1, WatcherTyped DEF GiveUp, CleanAgain, bounds
<1> QED BY <1>4, <1>5, <1>6, <1>7, <1>8, <1>9, <1>10 DEF Watch

\* The calls of the user.
UserCalls == \/ Cancel \/ CancelRefused \/ CancelTransfer \/ CancelDownloads \/ CancelMarks
             \/ CancelCleans \/ Remove \/ Purge

LEMMA UserTypes ==
    ASSUME Types, UserCalls
    PROVE  Types'
<1>0. /\ user \in UserRec /\ download \in [Nodes -> Places] /\ task \in TaskRec /\ meta \in MetaRec
      /\ mishaps \in 0..MaxMishaps /\ whims \in 0..MaxWhims
  BY DEF Types
<1>1. UNCHANGED userOnly
  BY DEF UserCalls, Cancel, CancelRefused, CancelTransfer, CancelDownloads, CancelMarks,
         CancelCleans, Remove, Purge
<1>2. ASSUME user' \in UserRec, task' \in TaskRec, meta' \in MetaRec,
             temp' \in {"none", "made", "deleted"}, download' \in [Nodes -> Places],
             mishaps' \in 0..MaxMishaps, whims' \in 0..MaxWhims
      PROVE  Types'
  BY <1>1, <1>2 DEF Types, userOnly
<1>3. ASSUME Cleans \/ temp' = temp PROVE temp' \in {"none", "made", "deleted"}
  BY <1>3 DEF Cleans, Types
<1>4. ASSUME Mishap PROVE mishaps' \in 0..MaxMishaps /\ whims' \in 0..MaxWhims
  BY <1>0, <1>4, TransferAssumption DEF Mishap
<1>5. CASE Cancel
  <2>1. user' \in UserRec
    BY <1>0, <1>5 DEF Cancel, UserRec, TaskRec
  <2> QED BY <1>0, <1>2, <1>3, <1>4, <1>5, <2>1 DEF Cancel
<1>6. CASE CancelRefused \/ CancelCleans \/ CancelMarks
  <2>1. PICK pc \in {"idle", "cleaning"} : Calls(pc)
    BY <1>6 DEF CancelRefused, CancelCleans, CancelMarks
  <2>2. task' \in TaskRec
    BY <1>0, <1>6, MarksTyped, SomeStatuses DEF CancelRefused, CancelCleans, CancelMarks
  <2> QED BY <1>0, <1>2, <1>3, <1>6, <2>1, <2>2, CallsTyped
          DEF CancelRefused, CancelCleans, CancelMarks, bounds
<1>7. CASE CancelTransfer
  <2>1. PICK pc \in {"idle", "cleaning"} : Calls(pc)
    BY <1>7 DEF CancelTransfer
  <2>2. task' \in TaskRec
    BY <1>0, <1>7, SomeStatuses DEF CancelTransfer, TaskRec
  <2> QED BY <1>0, <1>2, <1>3, <1>7, <2>1, <2>2, CallsTyped DEF CancelTransfer, bounds
<1>8. CASE CancelDownloads
  <2>1. task' \in TaskRec
    BY <1>0, <1>8 DEF CancelDownloads, TaskRec
  <2>2. download' \in [Nodes -> Places]
    BY <1>0, <1>8 DEF CancelDownloads, Places
  <2> QED BY <1>0, <1>2, <1>3, <1>8, <2>1, <2>2, CallsTyped DEF CancelDownloads, bounds
<1>9. CASE Remove
  <2>1. task' \in TaskRec /\ meta' \in MetaRec
    BY <1>0, <1>9 DEF Remove, Gone, TaskRec, MetaRec
  <2>2. PICK pc \in {"idle", "purging"} : Calls(pc)
    BY <1>9 DEF Remove
  <2> QED BY <1>0, <1>2, <1>3, <1>4, <1>9, <2>1, <2>2, CallsTyped DEF Remove
<1>10. CASE Purge
  <2>1. download' \in [Nodes -> Places]
    BY <1>10 DEF Purge, Places
  <2> QED BY <1>0, <1>2, <1>3, <1>10, <2>1, CallsTyped DEF Purge, bounds
<1> QED BY <1>5, <1>6, <1>7, <1>8, <1>9, <1>10 DEF UserCalls

\* The downloads end, and the user pauses and resumes them.
LEMMA EndsTypes ==
    ASSUME Types, NEW n \in Nodes, Ends(n) \/ PauseOrResume(n)
    PROVE  Types'
<1>1. download' \in [Nodes -> Places]
  BY DEF Types, Ends, PauseOrResume, Places
<1>2. mishaps' \in 0..MaxMishaps /\ whims' \in 0..MaxWhims
  BY TransferAssumption DEF Types, Ends, PauseOrResume, Whim, bounds
<1>3. UNCHANGED downloadOnly
  BY DEF Ends, PauseOrResume
<1> QED BY <1>1, <1>2, <1>3 DEF Types, downloadOnly

\* A restart.
LEMMA RestartTypes ==
    ASSUME Types, Restart
    PROVE  Types'
<1> DEFINE stored == IF meta.complete THEN Gone ELSE meta
           back   == stored.kept /\ stored.status # "completed"
           held   == stored.status \in {"transferred", "downloading", "cleaning"}
           status == IF back /\ held THEN stored.status ELSE "transfer_failed"
           ids    == IF back /\ stored.status = "downloading" THEN stored.ids ELSE {}
           wpc    == IF back /\ stored.status = "downloading" /\ stored.ids # {} THEN "polling"
                     ELSE IF back /\ stored.status = "cleaning" THEN "recleaning" ELSE "off"
<1>1. /\ meta' = stored
      /\ task' = [listed |-> back, token |-> FALSE, warned |-> FALSE, timed |-> FALSE,
                  status |-> status, ids |-> ids]
      /\ watch' = [NoWatch EXCEPT !.pc = wpc]
      /\ exec' = NoExec /\ user' = NoCall
      /\ download' = [n \in Nodes |-> IF download[n] = "running" THEN "paused" ELSE download[n]]
      /\ UNCHANGED <<kind, temp, saved, cut>> /\ Mishap
  BY DEF Restart
<1>2. stored \in MetaRec
  BY DEF Types, Gone, MetaRec
<1> HIDE DEF stored
<1>3. back \in BOOLEAN /\ status \in Statuses /\ ids \in SUBSET Nodes
  BY <1>2, SomeStatuses DEF MetaRec
<1>4. wpc \in {"polling", "recleaning", "off"}
  OBVIOUS
<1> HIDE DEF back, status, ids, wpc
<1>5. task' \in TaskRec
  BY <1>1, <1>3 DEF TaskRec
<1>6. watch' \in WatchRec /\ watch'.pc # "judged"
  BY <1>1, <1>4, TransferAssumption DEF NoWatch, WatchRec
<1>7. exec' \in ExecRec /\ exec'.pc = "off" /\ user' \in UserRec
  <2>1. 1 \in 1..Len(Batches) + 1 /\ <<>> \in Seq(Pieces)
    BY BatchCount
  <2> QED BY <1>1, <2>1 DEF NoExec, NoCall, ExecRec, ExecPC, UserRec
<1>8. download' \in [Nodes -> Places]
  BY <1>1 DEF Types, Places
<1>9. mishaps' \in 0..MaxMishaps /\ whims' \in 0..MaxWhims
  BY <1>1, TransferAssumption DEF Types, Mishap
<1> QED BY <1>1, <1>2, <1>5, <1>6, <1>7, <1>8, <1>9 DEF Types

\* Every step keeps the types.
LEMMA NextTypes == Types /\ [Next]_vars => Types'
<1> SUFFICES ASSUME Types, [Next]_vars PROVE Types'
  OBVIOUS
<1>1. CASE Execute
  BY <1>1, ExecuteTypes, BatchTypes, DownloadingTypes DEF Execute
<1>2. CASE Watch \/ WatcherTimesOut
  BY <1>2, WatchTypes
<1>3. CASE UserCalls
  BY <1>3, UserTypes
<1>4. CASE \E n \in Nodes : Ends(n) \/ PauseOrResume(n)
  BY <1>4, EndsTypes
<1>5. CASE Restart
  BY <1>5, RestartTypes
<1>6. CASE UNCHANGED vars
  BY <1>6 DEF vars, bounds, Types
<1> QED BY <1>1, <1>2, <1>3, <1>4, <1>5, <1>6 DEF Next, UserCalls

\* The types hold in every behaviour, whatever the user calls and when the program restarts.
THEOREM TransferTypes == Spec => []TypeOK
BY InitTypes, NextTypes, TypesOK, PTL DEF Spec

-----------------------------------------------------------------------------
(* Nothing is lost in silence.                                             *)

\* The statuses of a transfer that did not fail, and where the execution has got to when
\* it has claimed such a success.
Succeeded == {"transferred", "downloading", "cleaning", "completed"}
Past      == {"marking", "creating", "downloading", "storing", "watching", "persisting"}

AllSaved == Files(Selected) \subseteq Files(saved \cup cut)

\* The metadata, as long as they are there, say that something was left behind, or
\* nothing was but what the listings left out.
Told == meta.kept => meta.warned \/ AllSaved

\* Somebody claims success: the execution past its merge, a watcher, the task or, for the
\* next start of the program, its metadata.
Claims == \/ exec.pc \in Past
          \/ watch.pc # "off"
          \/ task.status \in Succeeded
          \/ meta.kept /\ meta.status \in Succeeded

\* The nodes in the pieces of a stack.
Items(stack) == {n \in Nodes : \E i \in 1..Len(stack) : n \in stack[i].items}

\* What has been submitted before the current batch, and what of the current batch is
\* still to be split.
Submitted == UNION {Batches[i] : i \in 1..exec.next - 1}
Pending   == Items(exec.stack)

\* The books of the execution until it merges: what it has not picked was left out; the
\* batches so far are saved or left out, or a loss is noted; the current one is saved, left
\* out or on the stack, or noted; the merge sees all batches, or was sent for by the token.
BatchInv ==
    /\ exec.pc \in {"queued", "listing", "preparing"} => exec.next = 1
    /\ exec.pc \in {"preparing", "batches", "submitting", "splitting", "merging"} =>
          Selected \ exec.picked \subseteq cut
    /\ exec.pc \in {"batches", "submitting", "splitting", "merging"} =>
          exec.lost \/ Files(Submitted) \subseteq Files(saved \cup cut)
    /\ exec.pc = "splitting" =>
          exec.bad \/ Files(Batches[exec.next]) \subseteq Files(exec.got \cup Pending \cup cut)
    /\ exec.pc = "merging" => task.token \/ exec.next = Len(Batches) + 1

LossInv ==
    /\ task.listed => meta.kept
    /\ Claims => Told
    /\ BatchInv

\* The invariant says what the property says: a listed task has its metadata.
LEMMA LossImplies == LossInv => NoSilentLoss
<1>1. Files(saved \cup cut) \subseteq Files(saved) \cup Files(cut)
  BY FilesOfBoth
<1> QED BY <1>1 DEF LossInv, Claims, Told, AllSaved, Succeeded, NoSilentLoss

\* Whatever makes no new claim, unsays no warning and loses nothing keeps the first part.
LEMMA NoNewClaim ==
    ASSUME LossInv, Claims' => Claims, saved \subseteq saved', cut \subseteq cut',
           meta'.kept => meta.kept /\ meta'.warned = meta.warned
    PROVE  (Claims => Told)'
<1> SUFFICES ASSUME Claims', meta'.kept PROVE meta'.warned \/ AllSaved'
  BY DEF Told
<1>1. meta.warned \/ AllSaved
  BY DEF LossInv, Told
<1>2. Files(saved \cup cut) \subseteq Files(saved' \cup cut')
  BY FilesGrow
<1>3. AllSaved => AllSaved'
  BY <1>2 DEF AllSaved, Files
<1> QED BY <1>1, <1>3

\* A step beside the execution keeps its books; the token is not taken back.
LEMMA BooksKept ==
    ASSUME BatchInv, UNCHANGED <<exec, saved, cut>>, task.token => task'.token
    PROVE  BatchInv'
BY DEF BatchInv, Submitted, Pending, Items, Files, Selected

\* Outside the saving there are no books.
LEMMA BooksClosed ==
    ASSUME exec'.pc \notin {"queued", "listing", "preparing", "batches", "submitting",
                            "splitting", "merging"}
    PROVE  BatchInv'
BY DEF BatchInv

\* What Goes, Marks, Stores and Archives write, field by field.
LEMMA GoesTo ==
    ASSUME Types, NEW pc, Goes(pc)
    PROVE  /\ exec'.pc = pc /\ exec'.next = exec.next /\ exec'.stack = exec.stack
           /\ exec'.got = exec.got /\ exec'.bad = exec.bad /\ exec'.lost = exec.lost
           /\ exec'.won = exec.won /\ exec'.picked = exec.picked
BY DEF Types, Goes, ExecRec

LEMMA MarksAs ==
    ASSUME Types, NEW status, Marks(status)
    PROVE  task'.status = status /\ task'.listed = task.listed /\ task'.token = task.token
BY DEF Types, Marks, TaskRec

LEMMA StoresAs ==
    ASSUME Types, NEW status, Stores(status) \/ Archives(status)
    PROVE  /\ meta'.kept = meta.kept /\ meta'.warned = meta.warned
           /\ meta'.status = IF meta.kept THEN status ELSE meta.status
BY DEF Types, Stores, Archives, MetaRec

\* The execution before the batches.
LEMMA BeginsLoss ==
    ASSUME Types, LossInv, Check \/ List \/ MakeDir
    PROVE  LossInv'
<1>0. UNCHANGED <<saved, watch>> /\ exec.pc \in {"queued", "listing", "preparing"}
  BY DEF Check, List, MakeDir, execOnly
<1>1. exec.next = 1
  BY <1>0 DEF LossInv, BatchInv
<1>2. PICK pc \in {"off", "listing", "preparing", "batches", "failing"} :
          \/ /\ Goes(pc) /\ cut' = cut
             /\ pc \in {"preparing", "batches"} => exec.pc = "preparing"
          \/ \E missed \in SUBSET Selected :
                /\ cut' = cut \cup missed
                /\ exec' = [exec EXCEPT !.picked = Selected \ missed, !.pc = pc]
  BY DEF Check, List, MakeDir, execOnly
<1>3. /\ exec'.pc = pc /\ exec'.next = 1 /\ cut \subseteq cut'
      /\ pc \in {"preparing", "batches"} => Selected \ exec'.picked \subseteq cut'
  <2>1. CASE Goes(pc) /\ cut' = cut /\ (pc \in {"preparing", "batches"} => exec.pc = "preparing")
    BY <1>1, <2>1, GoesTo DEF LossInv, BatchInv
  <2>2. ASSUME NEW missed \in SUBSET Selected, cut' = cut \cup missed,
               exec' = [exec EXCEPT !.picked = Selected \ missed, !.pc = pc]
        PROVE  /\ exec'.pc = pc /\ exec'.next = exec.next
               /\ cut \subseteq cut' /\ Selected \ exec'.picked \subseteq cut'
    BY <2>2 DEF Types, ExecRec
  <2> QED BY <1>1, <1>2, <2>1, <2>2
<1>4. Files(Submitted)' = {}
  <2>1. Submitted' = {}
    BY <1>3 DEF Submitted
  <2>2. Files(Submitted)' = Files(Submitted')
    BY DEF Files
  <2> QED BY <2>1, <2>2, FilesOfNone
<1>5. BatchInv'
  BY <1>2, <1>3, <1>4 DEF BatchInv, Selected
<1>6. /\ task'.listed = task.listed
      /\ task'.status \in Succeeded => task.status \in Succeeded
  <2>1. UNCHANGED task \/ Marks("checking_share") \/ Marks("transferring")
    BY Zenon DEF Check, List, MakeDir
  <2> QED BY <2>1, MarksAs DEF Succeeded
<1>7. /\ meta'.kept = meta.kept /\ meta'.warned = meta.warned
      /\ meta'.status \in Succeeded => meta.status \in Succeeded
  <2>1. UNCHANGED meta \/ Stores("transferring")
    BY Zenon DEF Check, List, MakeDir
  <2> QED BY <2>1, StoresAs DEF Succeeded
<1>8. Claims' => Claims
  BY <1>0, <1>3, <1>6, <1>7 DEF Claims, Past
<1> QED BY <1>0, <1>3, <1>5, <1>6, <1>7, <1>8, NoNewClaim DEF LossInv

\* What is saved while the execution submits and splits: nothing is claimed meanwhile.
LEMMA SavingKeeps ==
    ASSUME LossInv, UNCHANGED <<task, meta, watch>>, saved \subseteq saved',
           cut \subseteq cut', BatchInv', exec'.pc \notin Past
    PROVE  LossInv'
<1>1. Claims' => Claims
  BY DEF Claims
<1> QED BY <1>1, NoNewClaim DEF LossInv

\* The next batch, or the merge.
LEMMA NextBatchLoss ==
    ASSUME Types, LossInv, NextBatch
    PROVE  LossInv'
<1>1. exec.pc = "batches" /\ UNCHANGED <<task, meta, watch, saved, cut>>
  BY DEF NextBatch, execOnly
<1>2. PICK pc \in {"merging", "submitting"} :
          Goes(pc) /\ (pc = "merging" => task.token \/ exec.next > Len(Batches))
  BY DEF NextBatch
<1>3. /\ exec'.pc = pc /\ exec'.next = exec.next /\ exec'.lost = exec.lost
      /\ exec.next \in 1..Len(Batches) + 1 /\ exec'.picked = exec.picked
  BY <1>2, GoesTo DEF Types, ExecRec
<1>4. pc = "merging" => task.token \/ exec.next = Len(Batches) + 1
  BY <1>2, <1>3, BatchCount
<1>5. /\ exec.lost \/ Files(Submitted) \subseteq Files(saved \cup cut)
      /\ Selected \ exec.picked \subseteq cut
  BY <1>1 DEF LossInv, BatchInv
<1>6. /\ Submitted' = Submitted
      /\ Files(Submitted)' = Files(Submitted') /\ Files(saved \cup cut)' = Files(saved \cup cut)
  BY <1>1, <1>3 DEF Submitted, Files
<1>7. BatchInv'
  BY <1>1, <1>2, <1>3, <1>4, <1>5, <1>6 DEF BatchInv, Selected
<1> QED BY <1>1, <1>2, <1>3, <1>7, SavingKeeps DEF Past

\* A batch ends: what it saved covers it, or the loss is noted.
LEMMA BatchEndsLoss ==
    ASSUME Types, LossInv, exec.pc \in {"submitting", "splitting"},
           NEW nodes \in SUBSET Nodes, NEW bad \in BOOLEAN, BatchEnds(nodes, bad),
           bad \/ Files(Batches[exec.next]) \subseteq Files(nodes \cup cut),
           UNCHANGED <<task, meta, watch, cut>>
    PROVE  LossInv'
<1>1. /\ saved' = saved \cup nodes
      /\ exec'.pc = "batches" /\ exec'.next = exec.next + 1
      /\ exec'.lost = (exec.lost \/ bad) /\ exec'.picked = exec.picked
  BY DEF BatchEnds, Types, ExecRec
<1>2. exec.next \in 1..Len(Batches) /\ Len(Batches) \in Nat
  BY BatchCount DEF Types, ExecRec
<1>3. Submitted' = Submitted \cup Batches[exec.next]
  BY <1>1, <1>2 DEF Submitted
<1>4. /\ exec.lost \/ Files(Submitted) \subseteq Files(saved \cup cut)
      /\ Selected \ exec.picked \subseteq cut
  BY DEF LossInv, BatchInv
<1>5. /\ Files(saved \cup cut) \subseteq Files(saved \cup nodes \cup cut)
      /\ Files(nodes \cup cut) \subseteq Files(saved \cup nodes \cup cut)
  BY FilesGrow
<1>6. Files(Submitted \cup Batches[exec.next]) \subseteq Files(Submitted) \cup Files(Batches[exec.next])
  BY FilesOfBoth
<1>7. exec'.lost \/ Files(Submitted \cup Batches[exec.next]) \subseteq Files(saved \cup nodes \cup cut)
  BY <1>1, <1>4, <1>5, <1>6
<1>8. BatchInv'
  <2>1. /\ Files(Submitted)' = Files(Submitted')
        /\ Files(saved \cup cut)' = Files(saved' \cup cut')
    BY DEF Files
  <2> QED BY <1>1, <1>3, <1>4, <1>7, <2>1 DEF BatchInv, Selected
<1> QED BY <1>1, <1>8, SavingKeeps DEF Past

\* The pieces on a stack, piece by piece.
LEMMA PendingTop ==
    ASSUME Types, exec.stack # <<>>
    PROVE  Pending = Items(Rest) \cup Piece.items
<1>1. /\ Len(exec.stack) \in Nat \ {0} /\ Len(Rest) = Len(exec.stack) - 1
      /\ \A i \in 1..Len(Rest) : Rest[i] = exec.stack[i]
      /\ Piece.items \in SUBSET Nodes
  BY StackTyped DEF Pieces
<1>2. Piece = exec.stack[Len(exec.stack)]
  BY DEF Piece
<1>3. \A i \in 1..Len(exec.stack) : i = Len(exec.stack) \/ i \in 1..Len(Rest)
  BY <1>1
<1>4. Len(exec.stack) \in 1..Len(exec.stack) /\ 1..Len(Rest) \subseteq 1..Len(exec.stack)
  BY <1>1
<1>5. ASSUME NEW n \in Items(exec.stack) PROVE n \in Items(Rest) \cup Piece.items
  <2>1. n \in Nodes
    BY <1>5 DEF Items
  <2>2. PICK i \in 1..Len(exec.stack) : n \in exec.stack[i].items
    BY <1>5 DEF Items
  <2>3. CASE i = Len(exec.stack)
    BY <1>2, <2>2, <2>3
  <2>4. CASE i \in 1..Len(Rest)
    BY <1>1, <2>1, <2>2, <2>4 DEF Items
  <2> QED BY <1>3, <2>3, <2>4
<1>6. ASSUME NEW n \in Items(Rest) \cup Piece.items PROVE n \in Items(exec.stack)
  <2>1. CASE n \in Piece.items
    BY <1>1, <1>2, <1>4, <2>1 DEF Items
  <2>2. CASE n \in Items(Rest)
    <3>1. n \in Nodes
      BY <2>2 DEF Items
    <3>2. PICK i \in 1..Len(Rest) : n \in Rest[i].items
      BY <2>2 DEF Items
    <3> QED BY <1>1, <1>4, <3>1, <3>2 DEF Items
  <2> QED BY <1>6, <2>1, <2>2
<1> QED BY <1>5, <1>6 DEF Pending

\* One piece put on a stack adds its items.
LEMMA PendingAppend ==
    ASSUME NEW stack \in Seq(Pieces), NEW p \in Pieces
    PROVE  Items(Append(stack, p)) = Items(stack) \cup p.items
<1> DEFINE more == Append(stack, p)
<1>1. /\ Len(stack) \in Nat /\ Len(more) = Len(stack) + 1 /\ more[Len(stack) + 1] = p
      /\ \A i \in 1..Len(stack) : more[i] = stack[i]
  OBVIOUS
<1> HIDE DEF more
<1>2. \A i \in 1..Len(more) : i = Len(stack) + 1 \/ i \in 1..Len(stack)
  BY <1>1
<1>3. Len(stack) + 1 \in 1..Len(more) /\ 1..Len(stack) \subseteq 1..Len(more)
  BY <1>1
<1>4. p.items \in SUBSET Nodes
  BY DEF Pieces
<1>5. ASSUME NEW n \in Items(more) PROVE n \in Items(stack) \cup p.items
  <2>1. n \in Nodes
    BY <1>5 DEF Items
  <2>2. PICK i \in 1..Len(more) : n \in more[i].items
    BY <1>5 DEF Items
  <2>3. CASE i = Len(stack) + 1
    BY <1>1, <2>2, <2>3
  <2>4. CASE i \in 1..Len(stack)
    BY <1>1, <2>1, <2>2, <2>4 DEF Items
  <2> QED BY <1>2, <2>3, <2>4
<1>6. ASSUME NEW n \in Items(stack) \cup p.items PROVE n \in Items(more)
  <2>1. CASE n \in p.items
    BY <1>1, <1>3, <1>4, <2>1 DEF Items
  <2>2. CASE n \in Items(stack)
    <3>1. n \in Nodes
      BY <2>2 DEF Items
    <3>2. PICK i \in 1..Len(stack) : n \in stack[i].items
      BY <2>2 DEF Items
    <3> QED BY <1>1, <1>3, <3>1, <3>2 DEF Items
  <2> QED BY <1>6, <2>1, <2>2
<1>7. Items(more) = Items(stack) \cup p.items
  BY <1>5, <1>6
<1> QED BY <1>7 DEF more

\* A step of a split: what is got or pending after it has every file of what was, or the
\* loss is noted.
LEMMA SplitLoss ==
    ASSUME Types, LossInv, exec.pc = "splitting",
           exec'.pc = "splitting", exec'.next = exec.next, exec'.lost = exec.lost,
           exec'.picked = exec.picked, cut \subseteq cut',
           \/ exec'.bad
           \/ ~exec.bad /\ Files(exec.got \cup Pending \cup cut)
                            \subseteq Files((exec.got \cup Pending \cup cut)'),
           UNCHANGED <<task, meta, watch, saved>>
    PROVE  LossInv'
<1>1. /\ exec.lost \/ Files(Submitted) \subseteq Files(saved \cup cut)
      /\ Selected \ exec.picked \subseteq cut
  BY DEF LossInv, BatchInv
<1>2. exec.bad \/ Files(Batches[exec.next]) \subseteq Files(exec.got \cup Pending \cup cut)
  BY DEF LossInv, BatchInv
<1>3. exec'.bad \/ Files(Batches[exec.next]) \subseteq Files((exec.got \cup Pending \cup cut)')
  BY <1>2
<1>4. /\ Submitted' = Submitted
      /\ Files(saved \cup cut) \subseteq Files(saved' \cup cut')
  BY FilesGrow DEF Submitted
<1>5. /\ Files(exec.got \cup Pending \cup cut)' = Files((exec.got \cup Pending \cup cut)')
      /\ Files(Submitted)' = Files(Submitted') /\ Files(saved \cup cut)' = Files(saved' \cup cut')
      /\ Files(Batches[exec.next])' = Files(Batches[exec.next])
  BY DEF Files
<1>6. BatchInv'
  BY <1>1, <1>3, <1>4, <1>5 DEF BatchInv, Selected
<1> QED BY <1>6, SavingKeeps DEF Past

\* A stack of other pieces is put in place of the stack.
LEMMA SplitsAs ==
    ASSUME Types, NEW stack, Splits(stack)
    PROVE  /\ exec'.pc = exec.pc /\ exec'.next = exec.next /\ exec'.lost = exec.lost
           /\ exec'.bad = exec.bad /\ exec'.got = exec.got /\ exec'.stack = stack
           /\ exec'.picked = exec.picked /\ Pending' = Items(stack)
<1>1. /\ exec'.pc = exec.pc /\ exec'.next = exec.next /\ exec'.lost = exec.lost
      /\ exec'.bad = exec.bad /\ exec'.got = exec.got /\ exec'.stack = stack
      /\ exec'.picked = exec.picked
  BY DEF Types, Splits, ExecRec
<1> QED BY <1>1 DEF Pending, Items

\* Halving and descending keep every file on the stack, or leave it out.
LEMMA TooLargeLoss ==
    ASSUME Types, LossInv, exec.pc = "splitting", exec.stack # <<>>,
           TooLarge \/ GivesUp \/ NetdiskFull,
           UNCHANGED <<task, meta, watch, saved>>
    PROVE  LossInv'
<1>0. /\ Piece \in Pieces /\ Rest \in Seq(Pieces) /\ exec \in ExecRec
  BY StackTyped DEF Types
<1>1. CASE GivesUp \/ NetdiskFull
  <2>1. /\ exec'.pc = exec.pc /\ exec'.next = exec.next /\ exec'.lost = exec.lost
        /\ exec'.bad /\ exec'.picked = exec.picked /\ cut' = cut
    BY <1>0, <1>1 DEF GivesUp, NetdiskFull, ExecRec
  <2> QED BY <2>1, SplitLoss
<1> DEFINE Sub(s) == [items |-> s, depth |-> Piece.depth + 1]
           below == Items(Rest)
<1>2. Pending = below \cup Piece.items
  BY PendingTop
<1>3. ASSUME NEW s \in SUBSET Nodes, Piece.depth < MaxDepth
      PROVE  Sub(s) \in Pieces /\ Sub(s).items = s
  BY <1>0, <1>3, TransferAssumption DEF Pieces
<1>4. CASE \E left \in SUBSET Piece.items :
              /\ Piece.depth < MaxDepth /\ cut' = cut
              /\ Splits(Rest \o <<Sub(Piece.items \ left), Sub(left)>>)
  <2>1. PICK left \in SUBSET Piece.items :
              /\ Piece.depth < MaxDepth /\ cut' = cut
              /\ Splits(Rest \o <<Sub(Piece.items \ left), Sub(left)>>)
    BY <1>4
  <2> DEFINE p == Sub(Piece.items \ left)
             q == Sub(left)
             once  == Append(Rest, p)
             twice == Append(once, q)
  <2>2. /\ p \in Pieces /\ p.items = Piece.items \ left
        /\ q \in Pieces /\ q.items = left
    BY <1>0, <1>3, <2>1 DEF Pieces
  <2>3. Splits(Rest \o <<p, q>>)
    BY <2>1
  <2> HIDE DEF p, q, Sub
  <2>4. Rest \o <<p, q>> = twice
    BY <1>0, <2>2
  <2>5. once \in Seq(Pieces)
    BY <1>0, <2>2
  <2>6. Items(once) = below \cup p.items
    BY <1>0, <2>2, PendingAppend
  <2>7. Items(twice) = Items(once) \cup q.items
    BY <2>2, <2>5, PendingAppend
  <2> HIDE DEF once, twice
  <2>8. /\ exec'.pc = exec.pc /\ exec'.next = exec.next /\ exec'.lost = exec.lost
        /\ exec'.bad = exec.bad /\ exec'.got = exec.got /\ exec'.picked = exec.picked
        /\ Pending' = Items(twice)
    BY <2>3, <2>4, SplitsAs
  <2>9. Pending' = Pending
    BY <1>2, <2>1, <2>2, <2>6, <2>7, <2>8
  <2>10. (exec.got \cup Pending \cup cut)' = exec.got \cup Pending \cup cut
    BY <2>1, <2>8, <2>9
  <2> QED BY <2>1, <2>8, <2>10, SplitLoss, <1>0 DEF ExecRec
<1>5. CASE \E n \in Piece.items : \E part \in SUBSET Tree[n] :
              /\ Piece.items = {n} /\ part # {} /\ Piece.depth < MaxDepth
              /\ Splits(Append(Rest, Sub(part))) /\ cut' = cut \cup (Tree[n] \ part)
  <2>0. PICK n \in Piece.items : \E part \in SUBSET Tree[n] :
              /\ Piece.items = {n} /\ part # {} /\ Piece.depth < MaxDepth
              /\ Splits(Append(Rest, Sub(part))) /\ cut' = cut \cup (Tree[n] \ part)
    BY <1>5
  <2>1. PICK part \in SUBSET Tree[n] :
              /\ Piece.items = {n} /\ part # {} /\ Piece.depth < MaxDepth
              /\ Splits(Append(Rest, Sub(part))) /\ cut' = cut \cup (Tree[n] \ part)
    BY <2>0
  <2>2. n \in Nodes /\ Tree[n] \in SUBSET Nodes /\ Tree[n] # {}
    BY <1>0, <2>1, TransferAssumption DEF Pieces
  <2> DEFINE p == Sub(part)
             more == Append(Rest, p)
  <2>3. p \in Pieces /\ p.items = part /\ Splits(more)
    BY <1>3, <2>1, <2>2
  <2> HIDE DEF p, Sub
  <2>4. Items(more) = below \cup part
    BY <1>0, <2>3, PendingAppend
  <2>5. /\ exec'.pc = exec.pc /\ exec'.next = exec.next /\ exec'.lost = exec.lost
        /\ exec'.bad = exec.bad /\ exec'.got = exec.got /\ exec'.picked = exec.picked
        /\ Pending' = Items(more)
    BY <2>3, SplitsAs
  <2> HIDE DEF below, more
  <2>6. exec.got \cup Pending \cup cut = {n} \cup (exec.got \cup below \cup cut)
    BY <1>2, <2>1
  <2>7. (exec.got \cup Pending \cup cut)' = Tree[n] \cup (exec.got \cup below \cup cut)
    BY <2>1, <2>4, <2>5
  <2>8. Files({n} \cup (exec.got \cup below \cup cut))
           \subseteq Files(Tree[n] \cup (exec.got \cup below \cup cut))
    BY <2>2, FilesOfDir
  <2>9. cut \subseteq cut'
    BY <2>1
  <2> QED BY <2>5, <2>6, <2>7, <2>8, <2>9, SplitLoss, <1>0 DEF ExecRec
<1>6. ASSUME TooLarge
      PROVE  \/ GivesUp
             \/ \E left \in SUBSET Piece.items :
                  /\ Piece.depth < MaxDepth /\ cut' = cut
                  /\ Splits(Rest \o <<Sub(Piece.items \ left), Sub(left)>>)
             \/ \E n \in Piece.items : \E part \in SUBSET Tree[n] :
                  /\ Piece.items = {n} /\ part # {} /\ Piece.depth < MaxDepth
                  /\ Splits(Append(Rest, Sub(part))) /\ cut' = cut \cup (Tree[n] \ part)
  <2>1. Piece.items \in SUBSET Nodes
    BY <1>0 DEF Pieces
  <2>2. CASE Cardinality(Piece.items) = 1
    <3>1. PICK n \in Piece.items : Piece.items = {n} /\ n = CHOOSE m \in Piece.items : TRUE
      BY <2>1, <2>2, OneItem
    <3>2. \/ GivesUp
          \/ \E part \in (SUBSET Tree[CHOOSE m \in Piece.items : TRUE]) \ {{}} :
                /\ Piece.depth < MaxDepth
                /\ Splits(Append(Rest, Sub(part)))
                /\ cut' = cut \cup (Tree[CHOOSE m \in Piece.items : TRUE] \ part)
      <4>1. ~(Cardinality(Piece.items) >= 2)
        BY <2>2
      <4> QED BY <1>6, <4>1, Zenon DEF TooLarge
    <3>3. \/ GivesUp
          \/ \E part \in (SUBSET Tree[n]) \ {{}} :
                /\ Piece.depth < MaxDepth
                /\ Splits(Append(Rest, Sub(part)))
                /\ cut' = cut \cup (Tree[n] \ part)
      BY <3>1, <3>2
    <3>4. ASSUME NEW part \in (SUBSET Tree[n]) \ {{}}, Piece.depth < MaxDepth,
                 Splits(Append(Rest, Sub(part))), cut' = cut \cup (Tree[n] \ part)
          PROVE  \E m \in Piece.items : \E some \in SUBSET Tree[m] :
                  /\ Piece.items = {m} /\ some # {} /\ Piece.depth < MaxDepth
                  /\ Splits(Append(Rest, Sub(some))) /\ cut' = cut \cup (Tree[m] \ some)
      <4>1. n \in Piece.items /\ Piece.items = {n}
        BY <3>1
      <4>2. part \in SUBSET Tree[n] /\ part # {}
        BY <3>4
      <4> QED BY <3>4, <4>1, <4>2, Zenon
    <3> QED BY <3>3, <3>4
  <2>3. CASE Cardinality(Piece.items) # 1
    BY <1>6, <2>3 DEF TooLarge
  <2> QED BY <2>2, <2>3
<1> QED BY <1>1, <1>4, <1>5, <1>6

\* Submitting, splitting and ending a batch keep the books.
LEMMA SavesLoss ==
    ASSUME Types, LossInv, SubmitBatch \/ SplitBatch \/ SplitEnds
    PROVE  LossInv'
<1>0. /\ UNCHANGED <<task, meta, watch>> /\ exec \in ExecRec
      /\ exec.pc \in {"submitting", "splitting"}
      /\ exec.next \in 1..Len(Batches) /\ Batches[exec.next] \in SUBSET Nodes
  <2>1. UNCHANGED <<task, meta, watch>> /\ exec.pc \in {"submitting", "splitting"}
    BY DEF SubmitBatch, SplitBatch, SplitEnds
  <2>2. exec \in ExecRec /\ exec.next \in 1..Len(Batches)
    BY <2>1, BatchCount DEF Types, ExecRec
  <2> QED BY <2>1, <2>2, BatchNodes
<1>1. ASSUME NEW nodes \in SUBSET Nodes, NEW bad \in BOOLEAN, BatchEnds(nodes, bad),
             bad \/ Files(Batches[exec.next]) \subseteq Files(nodes \cup cut), cut' = cut
      PROVE  LossInv'
  BY <1>0, <1>1, BatchEndsLoss
<1>2. CASE SubmitBatch
  <2>1. exec.pc = "submitting" /\ cut' = cut
    BY <1>2 DEF SubmitBatch
  <2>a. Selected \ exec.picked \subseteq cut /\ Batches[exec.next] \subseteq Selected
    <3>1. exec.next \in DOMAIN Batches
      BY <1>0, TransferAssumption
    <3> QED BY <2>1, <3>1 DEF LossInv, BatchInv, Selected
  <2>b. Batch \in SUBSET Nodes /\ Batches[exec.next] \subseteq Batch \cup cut
    BY <1>0, <2>a DEF Batch
  <2>c. Files(Batches[exec.next]) \subseteq Files(Batch \cup cut)
    BY <2>b, FilesGrow
  <2>2. CASE BatchEnds(Batch, FALSE) \/ BatchEnds({}, TRUE)
    BY <1>0, <1>1, <2>1, <2>2, <2>b, <2>c
  <2>d. CASE Batch = {} /\ BatchEnds({}, FALSE)
    BY <1>0, <1>1, <2>1, <2>d, <2>c
  <2>3. CASE /\ exec' = [exec EXCEPT !.pc = "splitting",
                            !.stack = <<[items |-> Batch, depth |-> 0]>>]
             /\ UNCHANGED <<saved, temp>>
    <3> DEFINE p == [items |-> Batch, depth |-> 0]
    <3>1. p \in Pieces /\ p.items = Batch
      BY <2>b, TransferAssumption DEF Pieces
    <3>2. exec' = [exec EXCEPT !.pc = "splitting", !.stack = <<p>>]
      BY <2>3
    <3> HIDE DEF p
    <3>3. /\ exec'.pc = "splitting" /\ exec'.next = exec.next /\ exec'.lost = exec.lost
          /\ exec'.got = exec.got /\ exec'.stack = <<p>> /\ exec'.picked = exec.picked
      BY <1>0, <3>2 DEF ExecRec
    <3>4. p.items \subseteq Items(<<p>>)
      <4>1. 1 \in 1..Len(<<p>>) /\ <<p>>[1] = p
        OBVIOUS
      <4> QED BY <2>b, <3>1, <4>1 DEF Items
    <3>5. Pending' = Items(<<p>>)
      BY <3>3 DEF Pending, Items
    <3>6. Batches[exec.next] \subseteq (exec.got \cup Pending \cup cut)'
      BY <2>1, <2>b, <3>1, <3>4, <3>5
    <3>7. Files(Batches[exec.next]) \subseteq Files((exec.got \cup Pending \cup cut)')
      BY <3>6, FilesGrow
    <3>8. /\ Submitted' = Submitted /\ Files(saved \cup cut)' = Files(saved \cup cut)
          /\ Files(Submitted)' = Files(Submitted)
          /\ Files(Batches[exec.next])' = Files(Batches[exec.next])
          /\ Files(exec.got \cup Pending \cup cut)' = Files((exec.got \cup Pending \cup cut)')
      BY <2>1, <2>3, <3>3 DEF Submitted, Files
    <3>9. exec.lost \/ Files(Submitted) \subseteq Files(saved \cup cut)
      BY <2>1 DEF LossInv, BatchInv
    <3>10. BatchInv'
      BY <2>1, <2>a, <3>3, <3>7, <3>8, <3>9 DEF BatchInv, Selected
    <3> QED BY <1>0, <2>1, <2>3, <3>3, <3>10, SavingKeeps DEF Past
  <2> QED BY <1>2, <2>2, <2>d, <2>3 DEF SubmitBatch
<1>3. CASE SplitBatch
  <2>1. exec.pc = "splitting" /\ exec.stack # <<>>
    BY <1>3 DEF SplitBatch
  <2>2. CASE /\ exec' = [exec EXCEPT !.stack = Rest, !.got = @ \cup Piece.items]
             /\ UNCHANGED <<saved, cut>>
    <3>1. /\ exec'.pc = exec.pc /\ exec'.next = exec.next /\ exec'.lost = exec.lost
          /\ exec'.bad = exec.bad /\ exec'.got = exec.got \cup Piece.items /\ exec'.stack = Rest
          /\ exec'.picked = exec.picked
      BY <1>0, <2>2 DEF ExecRec
    <3>2. Pending' = Items(Rest)
      BY <3>1 DEF Pending, Items
    <3>3. Pending = Items(Rest) \cup Piece.items
      BY <2>1, PendingTop
    <3>4. (exec.got \cup Pending \cup cut)' = exec.got \cup Pending \cup cut
      BY <2>2, <3>1, <3>2, <3>3
    <3> QED BY <1>0, <2>1, <2>2, <3>1, <3>4, SplitLoss DEF ExecRec
  <2>3. CASE (TooLarge \/ GivesUp \/ NetdiskFull) /\ UNCHANGED saved
    BY <1>0, <2>1, <2>3, TooLargeLoss
  <2>4. CASE BatchEnds({}, TRUE) /\ UNCHANGED cut
    BY <1>1, <2>4
  <2> QED BY <1>3, <2>2, <2>3, <2>4 DEF SplitBatch
<1>4. CASE SplitEnds
  <2>1. /\ exec.pc = "splitting" /\ exec.stack = <<>> /\ BatchEnds(exec.got, exec.bad)
        /\ cut' = cut /\ exec.got \in SUBSET Nodes /\ exec.bad \in BOOLEAN
    BY <1>0, <1>4 DEF SplitEnds, ExecRec
  <2>2. Len(exec.stack) = 0
    BY <2>1
  <2>3. exec.got \cup Pending = exec.got
    BY <2>2 DEF Pending, Items
  <2>4. exec.bad \/ Files(Batches[exec.next]) \subseteq Files(exec.got \cup cut)
    BY <2>1, <2>3 DEF LossInv, BatchInv
  <2> QED BY <1>1, <2>1, <2>4
<1> QED BY <1>2, <1>3, <1>4

\* The merge: what the books say of all batches becomes the warning.
LEMMA MergeLoss ==
    ASSUME Types, LossInv, Merge
    PROVE  LossInv'
<1>0. /\ exec.pc = "merging" /\ UNCHANGED <<saved, cut, watch>>
      /\ task \in TaskRec /\ meta \in MetaRec
  BY DEF Merge, execOnly, Types
<1>1. PICK pc \in {"rejecting", "creating", "marking"} : Goes(pc)
  BY DEF Merge
<1>2. exec'.pc = pc
  BY <1>1, GoesTo
<1>3. BatchInv'
  BY <1>2, BooksClosed
<1>4. CASE task.token \/ ~exec.won
  <2>1. Goes("rejecting") /\ UNCHANGED <<task, meta>>
    BY <1>4 DEF Merge
  <2>2. exec'.pc \notin Past
    BY <2>1, GoesTo DEF Past
  <2> QED BY <1>0, <1>3, <2>1, <2>2, SavingKeeps
<1>5. CASE ~(task.token \/ ~exec.won)
  <2>1. /\ task' = [task EXCEPT !.warned = exec.lost]
        /\ meta' = IF meta.kept THEN [meta EXCEPT !.warned = exec.lost] ELSE meta
    BY <1>5 DEF Merge
  <2>2. task'.listed = task.listed /\ meta'.kept = meta.kept
        /\ (meta.kept => meta'.warned = exec.lost)
    BY <1>0, <2>1 DEF TaskRec, MetaRec
  <2>3. exec.next = Len(Batches) + 1 /\ (exec.lost \/ Files(Submitted) \subseteq Files(saved \cup cut))
    BY <1>0, <1>5 DEF LossInv, BatchInv
  <2>4. Submitted = Selected
    <3>1. 1..exec.next - 1 = DOMAIN Batches
      BY <2>3, BatchCount, TransferAssumption
    <3> QED BY <3>1 DEF Submitted, Selected
  <2>5. AllSaved' = AllSaved
    BY <1>0 DEF AllSaved, Files
  <2>6. Told'
    BY <2>2, <2>3, <2>4, <2>5 DEF Told, AllSaved
  <2> QED BY <1>3, <2>2, <2>6 DEF LossInv
<1> QED BY <1>4, <1>5

\* The execution past the merge, or on its way to a failure.
LEMMA EndsLoss ==
    ASSUME Types, LossInv,
           \/ Reject \/ RejectCleans \/ Mark \/ StartDownloads \/ CreateDownload
           \/ MarkDownloading \/ StoreStatus \/ StartWatcher \/ Persist \/ Fail
    PROVE  LossInv'
<1>0. /\ exec \in ExecRec /\ task \in TaskRec /\ meta \in MetaRec
  BY DEF Types
<1>1. saved' = saved /\ cut' = cut
  <2>1. CASE CreateDownload
    BY <2>1, Zenon DEF CreateDownload
  <2> QED BY <2>1 DEF Reject, RejectCleans, Mark, StartDownloads, MarkDownloading, StoreStatus,
                      StartWatcher, Persist, Fail, execOnly
<1>2. ASSUME task'.listed = task.listed, meta'.kept = meta.kept, meta'.warned = meta.warned,
             Claims' => Claims,
             exec'.pc \notin {"queued", "listing", "preparing", "batches", "submitting",
                              "splitting", "merging"}
      PROVE  LossInv'
  BY <1>1, <1>2, NoNewClaim, BooksClosed DEF LossInv
<1>3. CASE Reject
  <2>1. Marks("transfer_failed") /\ Stores("transfer_failed") /\ watch' = watch
    BY <1>3 DEF Reject, execOnly
  <2>2. PICK pc \in {"cleaning", "off"} : Goes(pc)
    BY <1>3 DEF Reject
  <2>3. exec'.pc = pc
    BY <2>2, GoesTo
  <2>4. task'.status = "transfer_failed" /\ task'.listed = task.listed
    BY <2>1, MarksAs
  <2>5. /\ meta'.kept = meta.kept /\ meta'.warned = meta.warned
        /\ meta'.status = IF meta.kept THEN "transfer_failed" ELSE meta.status
    BY <2>1, StoresAs
  <2>6. Claims' => Claims
    BY <2>1, <2>3, <2>4, <2>5 DEF Claims, Past, Succeeded
  <2> QED BY <1>2, <2>3, <2>4, <2>5, <2>6
<1>4. CASE RejectCleans
  <2>1. Goes("off") /\ UNCHANGED <<task, meta, watch>>
    BY <1>4 DEF RejectCleans, execOnly
  <2>2. exec'.pc = "off"
    BY <2>1, GoesTo
  <2>3. Claims' => Claims
    BY <2>1, <2>2 DEF Claims, Past
  <2> QED BY <1>2, <2>1, <2>2, <2>3
<1>5. CASE Fail
  <2>1. /\ Goes("off") /\ Stores("transfer_failed") /\ watch' = watch
        /\ Marks("transfer_failed") \/ UNCHANGED task
    BY <1>5 DEF Fail, execOnly
  <2>2. exec'.pc = "off"
    BY <2>1, GoesTo
  <2>3. task'.listed = task.listed /\ (task'.status \in Succeeded => task.status \in Succeeded)
    BY <2>1, MarksAs DEF Succeeded
  <2>4. /\ meta'.kept = meta.kept /\ meta'.warned = meta.warned
        /\ meta'.status = IF meta.kept THEN "transfer_failed" ELSE meta.status
    BY <2>1, StoresAs
  <2>5. Claims' => Claims
    BY <2>1, <2>2, <2>3, <2>4 DEF Claims, Past, Succeeded
  <2> QED BY <1>2, <2>2, <2>3, <2>4, <2>5
<1>6. CASE Mark \/ Persist \/ StoreStatus
  <2>1. exec.pc \in Past
    BY <1>6 DEF Mark, Persist, StoreStatus, Past
  <2>2. PICK pc \in {"off", "watching"} : Goes(pc)
    BY <1>6 DEF Mark, Persist, StoreStatus
  <2>3. exec'.pc = pc
    BY <2>2, GoesTo
  <2>4. task'.listed = task.listed
    BY <1>6, MarksAs DEF Mark, Persist, StoreStatus
  <2>5. meta'.kept = meta.kept /\ meta'.warned = meta.warned
    BY <1>6, StoresAs DEF Mark, Persist, StoreStatus
  <2> QED BY <1>2, <2>1, <2>3, <2>4, <2>5 DEF Claims
<1>7. CASE StartDownloads
  <2>1. exec.pc \in Past /\ UNCHANGED meta
    BY <1>7 DEF StartDownloads, Past
  <2>2. PICK pc \in {"failing", "persisting", "downloading"} :
            Goes(pc) \/ exec' = [exec EXCEPT !.pc = pc, !.todo = saved]
    BY <1>7 DEF StartDownloads
  <2>3. exec'.pc = pc
    BY <1>0, <2>2, GoesTo DEF ExecRec
  <2>4. task'.listed = task.listed
    BY <1>0, <1>7 DEF StartDownloads, TaskRec
  <2> QED BY <1>2, <2>1, <2>3, <2>4 DEF Claims
<1>8. CASE CreateDownload
  <2>1. exec.pc = "downloading" /\ UNCHANGED <<task, meta>>
    BY <1>8, Zenon DEF CreateDownload
  <2>2. PICK n \in exec.todo :
            \/ exec' = [exec EXCEPT !.todo = @ \ {n}, !.made = @ \cup {n}]
            \/ exec' = [exec EXCEPT !.todo = @ \ {n}]
    BY <1>8, Zenon DEF CreateDownload
  <2>3. exec'.pc = exec.pc
    BY <1>0, <2>2 DEF ExecRec
  <2>4. exec.pc \in Past
    BY <2>1 DEF Past
  <2> QED BY <1>2, <2>1, <2>3, <2>4 DEF Claims
<1>9. CASE MarkDownloading
  <2>1. exec.pc \in Past
    BY <1>9 DEF MarkDownloading, Past
  <2>2. PICK pc \in {"persisting", "storing"} : Goes(pc)
    BY <1>9 DEF MarkDownloading
  <2>3. exec'.pc = pc
    BY <2>2, GoesTo
  <2>4. task'.listed = task.listed
    <3>1. CASE exec.made = {}
      BY <1>9, <3>1, MarksAs DEF MarkDownloading
    <3>2. CASE exec.made # {}
      BY <1>0, <1>9, <3>2 DEF MarkDownloading, TaskRec
    <3> QED BY <3>1, <3>2
  <2>5. meta'.kept = meta.kept /\ meta'.warned = meta.warned
    BY <1>9, StoresAs DEF MarkDownloading
  <2> QED BY <1>2, <2>1, <2>3, <2>4, <2>5 DEF Claims
<1>10. CASE StartWatcher
  <2>1. exec.pc \in Past /\ UNCHANGED task /\ Goes("persisting")
    BY <1>10 DEF StartWatcher, Past
  <2>2. exec'.pc = "persisting"
    BY <2>1, GoesTo
  <2>3. meta'.kept = meta.kept /\ meta'.warned = meta.warned
    BY <1>0, <1>10 DEF StartWatcher, MetaRec
  <2> QED BY <1>2, <2>1, <2>2, <2>3 DEF Claims
<1> QED BY <1>3, <1>4, <1>5, <1>6, <1>7, <1>8, <1>9, <1>10

\* The watcher only speaks where something was claimed.
LEMMA WatchLoss ==
    ASSUME Types, LossInv, Watch \/ WatcherTimesOut
    PROVE  LossInv'
<1>1. watch.pc # "off" /\ UNCHANGED <<exec, saved, cut>>
  BY DEF Watch, WatcherLeaves, WatcherTimesOut, RestartFailed, Judge, Conclude, CleanUp, GiveUp,
         CleanAgain, watchOnly
<1>2. task'.listed = task.listed /\ task'.token = task.token
  BY MarksAs DEF Watch, WatcherLeaves, WatcherTimesOut, RestartFailed, Judge, Conclude, CleanUp,
         GiveUp, CleanAgain
<1>3. meta'.kept = meta.kept /\ meta'.warned = meta.warned
  <2>1. \/ UNCHANGED meta
        \/ \E status \in {"completed", "cleaning", "download_failed"} :
              Stores(status) \/ Archives(status)
    BY DEF Watch, WatcherLeaves, WatcherTimesOut, RestartFailed, Judge, Conclude, CleanUp,
         GiveUp, CleanAgain
  <2> QED BY <2>1, StoresAs
<1>4. Claims
  BY <1>1 DEF Claims
<1> QED BY <1>1, <1>2, <1>3, <1>4, NoNewClaim, BooksKept DEF LossInv

\* The user, and the downloads, claim nothing.
LEMMA OutsideLoss ==
    ASSUME Types, LossInv, UserCalls \/ \E n \in Nodes : Ends(n) \/ PauseOrResume(n)
    PROVE  LossInv'
<1>0. task \in TaskRec /\ meta \in MetaRec
  BY DEF Types
<1>1. UNCHANGED <<exec, saved, cut, watch>>
  BY DEF UserCalls, Cancel, CancelRefused, CancelTransfer, CancelDownloads, CancelMarks,
         CancelCleans, Remove, Purge, userOnly, Ends, PauseOrResume, downloadOnly
<1>2. ASSUME task'.listed => task.listed, task.token => task'.token,
             task'.status \in Succeeded => task.status \in Succeeded,
             UNCHANGED meta \/ (meta' = Gone /\ ~task'.listed)
      PROVE  LossInv'
  <2>1. meta'.kept => UNCHANGED meta
    BY <1>2 DEF Gone
  <2>2. Claims' => Claims
    BY <1>1, <1>2, <2>1 DEF Claims
  <2> QED BY <1>1, <1>2, <2>1, <2>2, NoNewClaim, BooksKept DEF LossInv
<1>3. CASE Remove
  BY <1>0, <1>2, <1>3 DEF Remove, TaskRec
<1>4. CASE CancelTransfer \/ CancelDownloads
  BY <1>0, <1>2, <1>4 DEF CancelTransfer, CancelDownloads, TaskRec, Succeeded
<1>5. CASE CancelMarks
  BY <1>0, <1>2, <1>5, MarksAs DEF CancelMarks, Succeeded
<1>6. CASE Cancel \/ CancelRefused \/ CancelCleans \/ Purge
           \/ \E n \in Nodes : Ends(n) \/ PauseOrResume(n)
  <2>1. UNCHANGED <<task, meta>>
    BY <1>6 DEF Cancel, CancelRefused, CancelCleans, Purge, Ends, PauseOrResume, downloadOnly
  <2> QED BY <1>2, <2>1
<1> QED BY <1>3, <1>4, <1>5, <1>6 DEF UserCalls

\* A restart brings back what the metadata claim, with their warning.
LEMMA RestartLoss ==
    ASSUME Types, LossInv, Restart
    PROVE  LossInv'
<1> DEFINE stored == IF meta.complete THEN Gone ELSE meta
           back   == stored.kept /\ stored.status # "completed"
<1>1. /\ meta' = stored /\ task'.listed = back /\ exec'.pc = "off" /\ saved' = saved /\ cut' = cut
      /\ task'.status \in Succeeded => back /\ stored.status \in Succeeded
      /\ watch'.pc # "off" => back /\ stored.status \in Succeeded
  BY DEF Restart, NoExec, NoWatch, Succeeded
<1>2. stored.kept => meta' = meta
  BY <1>1 DEF Gone
<1>3. Claims' => stored.kept /\ stored.status \in Succeeded
  BY <1>1 DEF Claims, Past
<1>4. Claims' => Claims
  BY <1>1, <1>2, <1>3 DEF Claims
<1>5. meta'.kept => meta.kept /\ meta'.warned = meta.warned
  BY <1>1, <1>2
<1>6. BatchInv'
  BY <1>1, BooksClosed
<1> QED BY <1>1, <1>4, <1>5, <1>6, NoNewClaim DEF LossInv

\* At the start nothing is claimed.
LEMMA InitLoss == Init => LossInv
BY DEF Init, LossInv, Claims, BatchInv, NoExec, NoWatch, Gone, Past, Succeeded

\* Every step keeps the invariant.
LEMMA NextLoss == Types /\ LossInv /\ [Next]_vars => LossInv'
<1> SUFFICES ASSUME Types, LossInv, [Next]_vars PROVE LossInv'
  OBVIOUS
<1>1. CASE Execute
  BY <1>1, BeginsLoss, NextBatchLoss, SavesLoss, MergeLoss, EndsLoss DEF Execute
<1>2. CASE Watch \/ WatcherTimesOut
  BY <1>2, WatchLoss
<1>3. CASE UserCalls \/ \E n \in Nodes : Ends(n) \/ PauseOrResume(n)
  BY <1>3, OutsideLoss
<1>4. CASE Restart
  BY <1>4, RestartLoss
<1>5. CASE UNCHANGED vars
  <2>1. Told' = Told /\ Claims' = Claims
    BY <1>5 DEF vars, Told, AllSaved, Files, Claims
  <2> QED BY <1>5, <2>1, BooksKept DEF LossInv, vars
<1> QED BY <1>1, <1>2, <1>3, <1>4, <1>5 DEF Next, UserCalls

\* No file that was listed is lost in silence, in any behaviour: whatever batches are refused,
\* halved, descended into or cut short by a full netdisk, whoever cancels, and whenever the
\* program restarts, a listed transfer that counts as a success has every selected file but
\* those the listings left out, or the warning.
THEOREM LossIsTold == Spec => []NoSilentLoss
<1>1. Types /\ LossInv /\ [Next]_vars => (Types /\ LossInv)'
  BY NextTypes, NextLoss
<1> QED BY <1>1, InitTypes, InitLoss, LossImplies, PTL DEF Spec
=============================================================================
