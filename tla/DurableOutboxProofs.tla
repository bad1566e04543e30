------------------------ MODULE DurableOutboxProofs ------------------------
(***************************************************************************)
(* Proofs about the durable outbox, for any operations, documents, plain   *)
(* saves and any number of failures.                                       *)
(***************************************************************************)
EXTENDS DurableOutbox, TLAPS

(***************************************************************************)
(* Where the holder of the lock stands: what each stage knows of the       *)
(* operation to be committed and of the one being applied.                 *)
(***************************************************************************)
Control ==
    /\ stage = "idle" => mode = "running" /\ job = NoOp /\ cur = NoOp
    /\ mode = "starting" => job = NoOp
    /\ stage = "scan" => cur = NoOp /\ (mode = "running" => job \in Op)
    /\ stage = "prepare" => cur = NoOp /\ job \in Op /\ Pending = {} /\ mode = "running"
    /\ stage \in {"scan", "prepare"} /\ job \in Op => row[job] = "none"
    /\ stage \in {"decide", "replace", "finalize"} =>
          /\ cur \in Op /\ row[cur] = "pending"
          /\ mode = "running" => job \in Op
          /\ job \in Op /\ job # cur => row[job] = "none"
    /\ stage = "replace" => todo \subseteq Writes[cur]

(***************************************************************************)
(* A pending operation is newer than what is in its documents, unless it   *)
(* is what is in them.                                                     *)
(***************************************************************************)
Newer ==
    \A o \in Pending : \A p \in Writes[o] :
        /\ rev[o][p] >= 1
        /\ \/ file[p].rev < rev[o][p]
           \/ file[p].by = o /\ file[p].rev = rev[o][p]

OutboxInv ==
    TypeOK /\ Control /\ ReconciledIsProof /\ JournalExact /\ Newer

-----------------------------------------------------------------------------
(***************************************************************************)
(* The inductive invariant holds initially.                                *)
(***************************************************************************)
LEMMA OutboxInit == Init => OutboxInv
<1> SUFFICES ASSUME Init PROVE OutboxInv OBVIOUS
<1>1. Pending = {} BY DEF Init, Pending
<1>2. TypeOK
  <2>1. journal \in Seq(Op) /\ failures \in 0 .. MaxFailures BY OutboxAssumption DEF Init
  <2> QED BY <2>1 DEF Init, TypeOK, Content, Stages
<1>3. Control /\ ReconciledIsProof BY OutboxAssumption DEF Init, Control, ReconciledIsProof
<1>4. JournalExact BY <1>1 DEF Init, JournalExact
<1>5. Newer BY <1>1 DEF Newer
<1> QED BY <1>2, <1>3, <1>4, <1>5 DEF OutboxInv

(***************************************************************************)
(* Steps that leave the rows, the journal and the documents alone and do   *)
(* not claim to be reconciled keep the durable part of the invariant.      *)
(***************************************************************************)
LEMMA DurableUnchanged ==
    ASSUME OutboxInv, UNCHANGED durableVars
    PROVE  JournalExact' /\ Newer' /\ Pending' = Pending
BY DEF OutboxInv, durableVars, JournalExact, Newer, Pending

(***************************************************************************)
(* A restart, by a crash or by an exception during the start.              *)
(***************************************************************************)
LEMMA RestartPreserves ==
    ASSUME OutboxInv, Restarted, UNCHANGED <<durableVars, base, saved>>,
           failures' \in 0 .. MaxFailures
    PROVE  OutboxInv'
<1>1. JournalExact' /\ Newer' BY DurableUnchanged
<1>2. TypeOK' BY DEF OutboxInv, TypeOK, Restarted, durableVars, Stages
<1>3. Control' BY OutboxAssumption DEF Restarted, Control
<1>4. ReconciledIsProof' BY DEF Restarted, ReconciledIsProof
<1> QED BY <1>1, <1>2, <1>3, <1>4 DEF OutboxInv

(***************************************************************************)
(* An exception that leaves commit_operation.                              *)
(***************************************************************************)
LEMMA LeavePreserves ==
    ASSUME OutboxInv, Leave, UNCHANGED <<durableVars, base, saved>>,
           failures' \in 0 .. MaxFailures
    PROVE  OutboxInv'
<1>1. CASE mode = "starting" BY <1>1, RestartPreserves DEF Leave
<1>2. CASE mode # "starting"
  <2>1. Unlock /\ UNCHANGED <<mode, reconciled>> BY <1>2 DEF Leave
  <2>2. JournalExact' /\ Newer' /\ Pending' = Pending BY DurableUnchanged
  <2>3. TypeOK' BY <2>1 DEF OutboxInv, TypeOK, Unlock, durableVars, Stages
  <2>4. Control' BY <1>2, <2>1, OutboxAssumption DEF OutboxInv, TypeOK, Unlock, Control
  <2>5. ReconciledIsProof' BY <2>1, <2>2 DEF OutboxInv, ReconciledIsProof
  <2> QED BY <2>2, <2>3, <2>4, <2>5 DEF OutboxInv
<1> QED BY <1>1, <1>2

(***************************************************************************)
(* Every step preserves the invariant.                                     *)
(***************************************************************************)
LEMMA OutboxStepPreserves == OutboxInv /\ [Next]_vars => OutboxInv'
<1> SUFFICES ASSUME OutboxInv, [Next]_vars PROVE OutboxInv' OBVIOUS
<1> USE OutboxAssumption
<1>1. ASSUME NEW o \in Op, Begin(o) PROVE OutboxInv'
  <2>1. JournalExact' /\ Newer' /\ Pending' = Pending BY <1>1, DurableUnchanged DEF Begin
  <2>2. TypeOK' BY <1>1 DEF OutboxInv, TypeOK, Begin, durableVars, Stages
  <2>3. Control'
        BY <1>1, <2>1 DEF OutboxInv, TypeOK, Begin, Control, ReconciledIsProof, durableVars
  <2>4. ReconciledIsProof' BY <1>1, <2>1 DEF OutboxInv, Begin, ReconciledIsProof
  <2> QED BY <2>1, <2>2, <2>3, <2>4 DEF OutboxInv
<1>2. CASE Scan
  <2>1. JournalExact' /\ Newer' /\ Pending' = Pending BY <1>2, DurableUnchanged DEF Scan
  <2>2. CASE Pending # {}
    <3>1. PICK o \in Pending : cur' = o BY <1>2, <2>2 DEF Scan
    <3>2. o \in Op /\ row[o] = "pending" BY DEF Pending
    <3>3. /\ stage' = "decide" /\ reconciled' = FALSE
          /\ UNCHANGED <<durableVars, mode, job, todo, base, saved, failures>>
          BY <1>2, <2>2 DEF Scan
    <3>4. TypeOK' BY <3>1, <3>2, <3>3 DEF OutboxInv, TypeOK, durableVars, Stages
    <3>5. Control'
          BY <1>2, <3>1, <3>2, <3>3, <2>1 DEF OutboxInv, Control, Scan, durableVars
    <3>6. ReconciledIsProof' BY <3>3 DEF ReconciledIsProof
    <3> QED BY <2>1, <3>4, <3>5, <3>6 DEF OutboxInv
  <2>3. CASE Pending = {}
    <3>1. /\ reconciled' = TRUE /\ mode' = "running" /\ stage = "scan"
          /\ stage' = IF mode = "starting" THEN "idle" ELSE "prepare"
          /\ UNCHANGED <<durableVars, cur, job, todo, base, saved, failures>>
          BY <1>2, <2>3 DEF Scan
    <3>2. TypeOK' BY <3>1 DEF OutboxInv, TypeOK, durableVars, Stages
    <3>3. Control'
          BY <3>1, <2>1, <2>3 DEF OutboxInv, TypeOK, Control, durableVars
    <3>4. ReconciledIsProof' BY <2>1, <2>3 DEF ReconciledIsProof
    <3> QED BY <2>1, <3>2, <3>3, <3>4 DEF OutboxInv
  <2> QED BY <2>2, <2>3
<1>3. CASE Prepare
  <2>1. job \in Op /\ row[job] = "none" /\ Pending = {}
        BY <1>3 DEF Prepare, OutboxInv, Control
  <2>2. Pending' = {job}
        BY <1>3, <2>1 DEF Prepare, Pending, OutboxInv, TypeOK
  <2>3. TypeOK'
    <3>1. [p \in Path |-> NextRevision(p)] \in [Path -> Nat]
          BY DEF OutboxInv, TypeOK, NextRevision
    <3>2. [p \in Path |-> file[p].by] \in [Path -> Content] BY DEF OutboxInv, TypeOK
    <3>3. rev' \in [Op -> [Path -> Nat]] /\ base' \in [Op -> [Path -> Content]]
          BY <1>3, <2>1, <3>1, <3>2 DEF Prepare, OutboxInv, TypeOK
    <3> QED BY <1>3, <2>1, <3>3 DEF Prepare, OutboxInv, TypeOK, Stages
  <2>4. Control' BY <1>3, <2>1 DEF Prepare, OutboxInv, TypeOK, Control
  <2>5. ReconciledIsProof' BY <1>3 DEF Prepare, ReconciledIsProof
  <2>6. JournalExact'
        BY <1>3, <2>1, <2>2 DEF Prepare, OutboxInv, TypeOK, JournalExact
  <2>7. Newer'
    <3> SUFFICES ASSUME NEW p \in Writes[job]
                 PROVE  /\ rev'[job][p] >= 1 /\ file'[p].rev < rev'[job][p]
        BY <2>2 DEF Newer
    <3>1. p \in Path BY <2>1
    <3> QED BY <1>3, <2>1, <3>1 DEF Prepare, OutboxInv, TypeOK, NextRevision
  <2> QED BY <2>3, <2>4, <2>5, <2>6, <2>7 DEF OutboxInv
<1>4. CASE Refuse
  <2>1. JournalExact' /\ Newer' /\ Pending' = Pending BY <1>4, DurableUnchanged DEF Refuse
  <2>2. TypeOK' BY <1>4 DEF OutboxInv, TypeOK, Refuse, Unlock, durableVars, Stages
  <2>3. Control' BY <1>4 DEF OutboxInv, TypeOK, Refuse, Unlock, Control
  <2>4. ReconciledIsProof' BY <1>4, <2>1 DEF OutboxInv, Refuse, ReconciledIsProof
  <2> QED BY <2>1, <2>2, <2>3, <2>4 DEF OutboxInv
<1>5. CASE Decide
  <2>1. JournalExact' /\ Newer' /\ Pending' = Pending BY <1>5, DurableUnchanged DEF Decide
  <2>2. cur \in Op BY <1>5 DEF Decide, OutboxInv, Control
  <2>3. TypeOK' BY <1>5, <2>2 DEF OutboxInv, TypeOK, Decide, durableVars, Stages
  <2>4. Control' BY <1>5 DEF OutboxInv, Decide, Control, durableVars
  <2>5. ReconciledIsProof' BY <1>5, <2>1 DEF OutboxInv, Decide, ReconciledIsProof
  <2> QED BY <2>1, <2>3, <2>4, <2>5 DEF OutboxInv
<1>6. ASSUME NEW p \in Path, Replace(p) PROVE OutboxInv'
  <2>1. cur \in Op /\ row[cur] = "pending" /\ p \in Writes[cur]
        BY <1>6 DEF Replace, OutboxInv, Control
  <2>2. Pending' = Pending /\ Pending = {cur}
        BY <1>6, <2>1 DEF Replace, Pending, OutboxInv, JournalExact
  <2>3. TypeOK' BY <1>6, <2>1 DEF Replace, OutboxInv, TypeOK, Content
  <2>4. Control' BY <1>6, <2>2 DEF Replace, OutboxInv, Control
  <2>5. ReconciledIsProof' BY <1>6, <2>2 DEF Replace, OutboxInv, ReconciledIsProof
  <2>6. JournalExact' BY <1>6, <2>2 DEF Replace, OutboxInv, JournalExact
  <2>7. Newer'
    <3> SUFFICES ASSUME NEW q \in Writes[cur]
                 PROVE  /\ rev'[cur][q] >= 1
                        /\ \/ file'[q].rev < rev'[cur][q]
                           \/ file'[q].by = cur /\ file'[q].rev = rev'[cur][q]
        BY <2>2 DEF Newer
    <3>1. q \in Path BY <2>1
    <3>2. CASE q = p BY <1>6, <2>2, <3>1, <3>2 DEF Replace, OutboxInv, TypeOK, Newer
    <3>3. CASE q # p BY <1>6, <2>2, <3>1, <3>3 DEF Replace, OutboxInv, TypeOK, Newer
    <3> QED BY <3>2, <3>3
  <2> QED BY <2>3, <2>4, <2>5, <2>6, <2>7 DEF OutboxInv
<1>7. CASE Verify
  <2>1. JournalExact' /\ Newer' /\ Pending' = Pending BY <1>7, DurableUnchanged DEF Verify
  <2>2. TypeOK' BY <1>7 DEF OutboxInv, TypeOK, Verify, durableVars, Stages
  <2>3. Control' BY <1>7 DEF OutboxInv, Verify, Control, durableVars
  <2>4. ReconciledIsProof' BY <1>7, <2>1 DEF OutboxInv, Verify, ReconciledIsProof
  <2> QED BY <2>1, <2>2, <2>3, <2>4 DEF OutboxInv
<1>8. CASE Finalize
  <2>1. cur \in Op /\ row[cur] = "pending"
        BY <1>8 DEF Finalize, OutboxInv, Control
  <2>2. Pending = {cur} BY <2>1 DEF Pending, OutboxInv, JournalExact
  <2>3. Pending' = {} BY <1>8, <2>2 DEF Finalize, Pending, OutboxInv, TypeOK
  <2>4. TypeOK'
    <3>1. journal' \in Seq(Op) /\ row' \in [Op -> {"none", "pending", "applied"}]
          BY <1>8, <2>1 DEF Finalize, OutboxInv, TypeOK
    <3>2. CASE cur = job
          BY <1>8, <3>1, <3>2 DEF Finalize, OutboxInv, TypeOK, Unlock, Stages
    <3>3. CASE cur # job
          BY <1>8, <3>1, <3>3 DEF Finalize, OutboxInv, TypeOK, Stages
    <3> QED BY <3>2, <3>3
  <2>5. Control'
    <3>1. CASE cur = job
          BY <1>8, <2>1, <3>1 DEF Finalize, OutboxInv, TypeOK, Unlock, Control
    <3>2. CASE cur # job
          BY <1>8, <2>1, <3>2 DEF Finalize, OutboxInv, TypeOK, Control
    <3> QED BY <3>1, <3>2
  <2>6. ReconciledIsProof' BY <2>3 DEF ReconciledIsProof
  <2>7. Newer' BY <2>3 DEF Newer
  <2>8. JournalExact'
    <3>1. journal \in Seq(Op) /\ journal' = Append(journal, cur)
          BY <1>8 DEF Finalize, OutboxInv, TypeOK
    <3>2. \A i \in 1 .. Len(journal) : journal[i] # cur
          BY <2>1 DEF OutboxInv, JournalExact
    <3>3. /\ Len(journal') = Len(journal) + 1
          /\ \A i \in 1 .. Len(journal) : journal'[i] = journal[i]
          /\ journal'[Len(journal) + 1] = cur
          /\ Len(journal) \in Nat
          BY <3>1
    <3>4. ASSUME NEW o \in Op
          PROVE  row'[o] = "applied" <=> \E i \in 1 .. Len(journal') : journal'[i] = o
      <4>1. CASE o = cur
            BY <1>8, <2>1, <3>3, <4>1 DEF Finalize, OutboxInv, TypeOK
      <4>2. CASE o # cur
        <5>1. row'[o] = row[o] BY <1>8, <4>2 DEF Finalize, OutboxInv, TypeOK
        <5>2. (\E i \in 1 .. Len(journal') : journal'[i] = o)
                 <=> (\E i \in 1 .. Len(journal) : journal[i] = o)
              BY <3>3, <4>2
        <5> QED BY <5>1, <5>2 DEF OutboxInv, JournalExact
      <4> QED BY <4>1, <4>2
    <3>5. \A i, j \in 1 .. Len(journal') : journal'[i] = journal'[j] => i = j
          BY <3>2, <3>3 DEF OutboxInv, JournalExact
    <3> QED BY <2>3, <3>4, <3>5 DEF JournalExact
  <2> QED BY <2>4, <2>5, <2>6, <2>7, <2>8 DEF OutboxInv
<1>9. CASE Raise
  <2>1. failures' \in 0 .. MaxFailures BY <1>9 DEF Raise, OutboxInv, TypeOK
  <2> QED BY <1>9, <2>1, LeavePreserves DEF Raise
<1>10. CASE Conflict
  <2>1. failures' \in 0 .. MaxFailures BY <1>10 DEF Conflict, OutboxInv, TypeOK
  <2> QED BY <1>10, <2>1, LeavePreserves DEF Conflict
<1>11. CASE Crash
  <2>1. failures' \in 0 .. MaxFailures BY <1>11 DEF Crash, OutboxInv, TypeOK
  <2> QED BY <1>11, <2>1, RestartPreserves DEF Crash
<1>12. ASSUME NEW p \in Path, NEW v \in Plain, Save(p, v) PROVE OutboxInv'
  <2>1. Pending' = Pending BY <1>12 DEF Save, Pending
  <2>2. TypeOK' BY <1>12 DEF Save, OutboxInv, TypeOK, Content, processVars
  <2>3. Control' BY <1>12, <2>1 DEF Save, OutboxInv, Control, processVars
  <2>4. ReconciledIsProof' BY <1>12, <2>1 DEF Save, OutboxInv, ReconciledIsProof, processVars
  <2>5. JournalExact' BY <1>12, <2>1 DEF Save, OutboxInv, JournalExact
  <2>6. Newer'
    <3> SUFFICES ASSUME NEW o \in Pending, NEW q \in Writes[o]
                 PROVE  /\ rev[o][q] >= 1
                        /\ \/ file'[q].rev < rev[o][q]
                           \/ file'[q].by = o /\ file'[q].rev = rev[o][q]
        BY <1>12, <2>1 DEF Newer, Save
    <3>1. o \in Op /\ q \in Path BY DEF Pending
    <3>2. rev[o][q] \in Nat /\ rev[o][q] >= 1 BY <3>1 DEF OutboxInv, TypeOK, Newer
    <3>3. CASE q = p BY <1>12, <3>1, <3>2, <3>3 DEF Save, OutboxInv, TypeOK
    <3>4. CASE q # p BY <1>12, <3>1, <3>4 DEF Save, OutboxInv, TypeOK, Newer
    <3> QED BY <3>3, <3>4
  <2> QED BY <2>2, <2>3, <2>4, <2>5, <2>6 DEF OutboxInv
<1>13. CASE UNCHANGED vars
  <2>1. JournalExact' /\ Newer' /\ Pending' = Pending
        BY <1>13, DurableUnchanged DEF vars
  <2> QED BY <1>13, <2>1
          DEF vars, durableVars, processVars, OutboxInv, TypeOK, Control, ReconciledIsProof
<1> QED BY <1>1, <1>2, <1>3, <1>4, <1>5, <1>6, <1>7, <1>8, <1>9, <1>10, <1>11, <1>12, <1>13
        DEF Next, OutboxStep

(***************************************************************************)
(* An operation that is newer than its documents does not diverge.         *)
(***************************************************************************)
LEMMA NewerDoesNotDiverge == OutboxInv => NeverDiverged
<1> SUFFICES ASSUME OutboxInv, stage = "decide", NEW p \in Writes[cur],
                    ~Own(p), file[p].rev >= rev[cur][p]
             PROVE  FALSE
    BY DEF NeverDiverged, Diverged
<1>1. cur \in Pending BY DEF OutboxInv, Control, Pending
<1>2. p \in Path BY <1>1, OutboxAssumption DEF Pending
<1>3. file[p].rev \in Nat /\ rev[cur][p] \in Nat
      BY <1>1, <1>2 DEF OutboxInv, TypeOK, Pending
<1> QED BY <1>1, <1>3 DEF OutboxInv, Newer, Own

(***************************************************************************)
(* The outbox is safe under exceptions and crashes at every step: its      *)
(* dirty flag tells the truth, the journal has the events of every applied *)
(* operation exactly once with at most one operation half done, and no     *)
(* operation meets a divergent revision, which would block every later     *)
(* commit.                                                                 *)
(***************************************************************************)
THEOREM OutboxSafety == Spec => [](TypeOK /\ ReconciledIsProof /\ JournalExact /\ NeverDiverged)
<1>1. Init => OutboxInv BY OutboxInit
<1>2. OutboxInv /\ [Next]_vars => OutboxInv' BY OutboxStepPreserves
<1>3. OutboxInv => TypeOK /\ ReconciledIsProof /\ JournalExact /\ NeverDiverged
      BY NewerDoesNotDiverge DEF OutboxInv
<1> QED BY <1>1, <1>2, <1>3, PTL DEF Spec

(***************************************************************************)
(* The parts of it that the run checks by name: types, the journal against *)
(* the applied rows, and no divergent revision.                            *)
(***************************************************************************)
THEOREM OutboxTypes == Spec => []TypeOK
BY OutboxSafety, PTL

(***************************************************************************)
(* _finalize inserts the events of an operation once, with its row.        *)
(***************************************************************************)
THEOREM JournalStaysExact == Spec => []JournalExact
BY OutboxSafety, PTL

(***************************************************************************)
(* _apply_writes never finds a revision it can neither skip nor replace.   *)
(***************************************************************************)
THEOREM NothingDiverges == Spec => []NeverDiverged
BY OutboxSafety, PTL

-----------------------------------------------------------------------------
(***************************************************************************)
(* When no step raises, a pending operation of a running process is the    *)
(* one its caller is committing, whose documents nobody else touches; what *)
(* it has replaced stays, and the rest is what it was made from.           *)
(***************************************************************************)
Undisturbed ==
    /\ mode = "running" => \A o \in Pending : job = o /\ cur = o
    /\ stage = "replace" => \A p \in Writes[cur] : p \in todo \/ Own(p)
    /\ stage = "finalize" => \A p \in Writes[cur] : Own(p)
    /\ \A o \in Pending : \A p \in Writes[o] :
          \/ file[p].by = base[o][p]
          \/ file[p].by = o /\ file[p].rev = rev[o][p]

CrashInv == OutboxInv /\ Undisturbed

(***************************************************************************)
(* Without exceptions no document changes behind a commit, so there is no  *)
(* OutboxStateConflictError either.                                        *)
(***************************************************************************)
LEMMA NoConflict == CrashInv => ~Conflict
<1> SUFFICES ASSUME CrashInv, Conflict PROVE FALSE OBVIOUS
<1>1. CASE stage = "decide" /\ Diverged
      BY <1>1, NewerDoesNotDiverge DEF CrashInv, NeverDiverged
<1>2. CASE stage = "replace" /\ Changed
      BY <1>2 DEF Changed, CrashInv, Undisturbed
<1> QED BY <1>1, <1>2 DEF Conflict

(***************************************************************************)
(* Without exceptions every step keeps commits undisturbed.                *)
(***************************************************************************)
LEMMA UndisturbedPreserved ==
    ASSUME ~CanRaise, CrashInv, [Next]_vars
    PROVE  Undisturbed'
<1> USE OutboxAssumption DEF CrashInv
<1>1. ASSUME NEW o \in Op, Begin(o) PROVE Undisturbed'
  <2>1. Pending = {} /\ Pending' = {}
        BY <1>1 DEF Begin, OutboxInv, Control, Undisturbed, Pending, durableVars
  <2> QED BY <1>1, <2>1 DEF Begin, Undisturbed
<1>2. CASE Scan
  <2>1. Pending' = Pending BY <1>2 DEF Scan, Pending, durableVars
  <2>2. mode = "running" => Pending = {}
        BY <1>2 DEF Scan, OutboxInv, Control, Undisturbed, Pending
  <2>3. Pending # {} => mode' = "starting"
        BY <1>2, <2>2 DEF Scan, OutboxInv, TypeOK
  <2>4. stage' \notin {"replace", "finalize"} BY <1>2 DEF Scan
  <2> QED BY <1>2, <2>1, <2>3, <2>4 DEF Scan, Undisturbed, durableVars
<1>3. CASE Prepare
  <2>1. job \in Op /\ Pending' = {job}
        BY <1>3 DEF Prepare, OutboxInv, Control, Pending, TypeOK
  <2>2. \A p \in Writes[job] : file'[p].by = base'[job][p]
        BY <1>3, <2>1 DEF Prepare, OutboxInv, TypeOK
  <2> QED BY <1>3, <2>1, <2>2 DEF Prepare, Undisturbed
<1>4. CASE Refuse
  <2>1. Pending = {} /\ Pending' = {}
        BY <1>4 DEF Refuse, OutboxInv, Control, Pending, durableVars
  <2> QED BY <1>4, <2>1 DEF Refuse, Unlock, Undisturbed
<1>5. CASE Decide
  <2>1. Pending' = Pending BY <1>5 DEF Decide, Pending, durableVars
  <2>2. \A p \in Writes[cur]' : p \in todo' \/ Own(p)'
        BY <1>5 DEF Decide, durableVars, Own
  <2> QED BY <1>5, <2>1, <2>2 DEF Decide, Undisturbed, durableVars
<1>6. ASSUME NEW p \in Path, Replace(p) PROVE Undisturbed'
  <2>1. cur \in Op /\ p \in Writes[cur] /\ Pending = {cur} /\ Pending' = {cur}
        BY <1>6 DEF Replace, OutboxInv, Control, JournalExact, Pending
  <2>2. ASSUME NEW q \in Writes[cur]
        PROVE  /\ q \in todo' \/ (file'[q].by = cur /\ file'[q].rev = rev[cur][q])
               /\ \/ file'[q].by = base[cur][q]
                  \/ file'[q].by = cur /\ file'[q].rev = rev[cur][q]
    <3>1. q \in Path BY <2>1
    <3>2. CASE q = p BY <1>6, <3>1, <3>2 DEF Replace, OutboxInv, TypeOK
    <3>3. CASE q # p
          BY <1>6, <2>1, <3>1, <3>3 DEF Replace, OutboxInv, TypeOK, Undisturbed, Own
    <3> QED BY <3>2, <3>3
  <2> QED BY <1>6, <2>1, <2>2 DEF Replace, Undisturbed, Own
<1>7. CASE Verify
  <2>1. Pending' = Pending BY <1>7 DEF Verify, Pending, durableVars
  <2> QED BY <1>7, <2>1 DEF Verify, Changed, Undisturbed, durableVars, Own
<1>8. CASE Finalize
  <2>1. cur \in Op /\ Pending = {cur}
        BY <1>8 DEF Finalize, OutboxInv, Control, JournalExact, Pending
  <2>2. Pending' = {} BY <1>8, <2>1 DEF Finalize, Pending, OutboxInv, TypeOK
  <2>3. stage' \notin {"replace", "finalize"} BY <1>8 DEF Finalize, Unlock
  <2> QED BY <2>2, <2>3 DEF Undisturbed
<1>9. CASE Raise BY <1>9 DEF Raise
<1>10. CASE Conflict BY <1>10, NoConflict
<1>11. CASE Crash
  <2>1. Pending' = Pending BY <1>11 DEF Crash, Pending, durableVars
  <2> QED BY <1>11, <2>1 DEF Crash, Restarted, Undisturbed, durableVars
<1>12. ASSUME NEW p \in Path, NEW v \in Plain, Save(p, v) PROVE Undisturbed'
  <2>1. Pending' = Pending BY <1>12 DEF Save, Pending
  <2>2. \A o \in Pending : o \in Op /\ job = o /\ cur = o /\ p \notin Writes[o]
        BY <1>12 DEF Save, Locked, Undisturbed, Pending
  <2>3. \A o \in Pending : \A q \in Writes[o] : file'[q] = file[q]
        BY <1>12, <2>2 DEF Save, OutboxInv, TypeOK
  <2>4. stage \in {"replace", "finalize"} => cur \in Pending
        BY DEF OutboxInv, Control, Pending
  <2> QED BY <1>12, <2>1, <2>2, <2>3, <2>4 DEF Save, Undisturbed, processVars, Own
<1>13. CASE UNCHANGED vars
  <2>1. Pending' = Pending BY <1>13 DEF vars, durableVars, Pending
  <2> QED BY <1>13, <2>1 DEF vars, durableVars, processVars, Undisturbed, Own
<1> QED BY <1>1, <1>2, <1>3, <1>4, <1>5, <1>6, <1>7, <1>8, <1>9, <1>10, <1>11, <1>12, <1>13
        DEF Next, OutboxStep

(***************************************************************************)
(* Rows, journal and contents determine the abstract state.                *)
(***************************************************************************)
LEMMA AbstractUnchanged ==
    ASSUME UNCHANGED <<row, journal>>, \A p \in Path : Owing(p) = {} => file'[p] = file[p]
    PROVE  UNCHANGED <<AbstractDoc, AbstractLog>>
<1>1. Pending' = Pending BY DEF Pending
<1>2. \A p \in Path : Owing(p)' = Owing(p) BY <1>1 DEF Owing
<1>3. AbstractLog' = AbstractLog BY <1>1 DEF AbstractLog
<1>4. \A p \in Path : AbstractDoc'[p] = AbstractDoc[p]
  <2> SUFFICES ASSUME NEW p \in Path PROVE AbstractDoc'[p] = AbstractDoc[p] OBVIOUS
  <2>1. CASE Owing(p) = {}
        BY <1>2, <2>1 DEF AbstractDoc
  <2>2. CASE Owing(p) # {}
    <3>1. AbstractDoc[p] = CHOOSE o \in Owing(p) : TRUE BY <2>2 DEF AbstractDoc
    <3>2. AbstractDoc'[p] = CHOOSE o \in Owing(p)' : TRUE BY <1>2, <2>2 DEF AbstractDoc
    <3> QED BY <1>2, <3>1, <3>2
  <2> QED BY <2>1, <2>2
<1>5. AbstractDoc' = AbstractDoc BY <1>4 DEF AbstractDoc
<1> QED BY <1>3, <1>5

(***************************************************************************)
(* Every step is a step of AtomicCommit or leaves its state alone.         *)
(***************************************************************************)
LEMMA StepImplements ==
    ASSUME ~CanRaise, CrashInv, [Next]_vars
    PROVE  [Abstract!Next]_<<AbstractDoc, AbstractLog>>
<1> USE OutboxAssumption DEF CrashInv
<1>1. CASE Prepare
  <2>1. job \in Op /\ row[job] = "none" /\ Pending = {} /\ Pending' = {job}
        BY <1>1 DEF Prepare, OutboxInv, Control, Pending, TypeOK
  <2>2. AbstractLog = journal /\ AbstractLog' = Append(journal, job)
        BY <1>1, <2>1 DEF Prepare, AbstractLog
  <2>3. \A i \in 1 .. Len(journal) : journal[i] # job
        BY <2>1 DEF OutboxInv, JournalExact
  <2>4. \A p \in Path : Owing(p) = {} /\ Owing(p)' = IF p \in Writes[job] THEN {job} ELSE {}
        BY <2>1 DEF Owing
  <2>5. AbstractDoc = [p \in Path |-> file[p].by]
        BY <2>4 DEF AbstractDoc
  <2>6. AbstractDoc' = [p \in Path |-> IF p \in Writes[job] THEN job ELSE AbstractDoc[p]]
        BY <1>1, <2>4, <2>5 DEF AbstractDoc, Prepare
  <2>7. Abstract!Commit(job) BY <2>2, <2>3, <2>6 DEF Abstract!Commit
  <2> QED BY <2>1, <2>7 DEF Abstract!Next
<1>2. CASE Finalize
  <2>1. cur \in Op /\ Pending = {cur}
        BY <1>2 DEF Finalize, OutboxInv, Control, JournalExact, Pending
  <2>2. Pending' = {} BY <1>2, <2>1 DEF Finalize, Pending, OutboxInv, TypeOK
  <2>3. AbstractLog' = AbstractLog
        BY <1>2, <2>1, <2>2 DEF Finalize, AbstractLog
  <2>4. \A p \in Path : Owing(p)' = {} /\ Owing(p) = IF p \in Writes[cur] THEN {cur} ELSE {}
        BY <2>1, <2>2 DEF Owing
  <2>5. \A p \in Writes[cur] : file[p].by = cur
        BY <1>2 DEF Finalize, Undisturbed, Own
  <2>6. AbstractDoc' = AbstractDoc
        BY <1>2, <2>4, <2>5 DEF AbstractDoc, Finalize
  <2> QED BY <2>3, <2>6
<1>3. ASSUME NEW p \in Path, Replace(p)
      PROVE  UNCHANGED <<AbstractDoc, AbstractLog>>
  <2>1. cur \in Pending /\ p \in Writes[cur]
        BY <1>3 DEF Replace, OutboxInv, Control, Pending
  <2>2. \A q \in Path : Owing(q) = {} => q # p BY <2>1 DEF Owing
  <2> QED BY <1>3, <2>2, AbstractUnchanged DEF Replace, OutboxInv, TypeOK
<1>4. ASSUME NEW p \in Path, NEW v \in Plain, Save(p, v)
      PROVE  Abstract!Save(p, v)
  <2>1. Pending' = Pending BY <1>4 DEF Save, Pending
  <2>2. AbstractLog' = AbstractLog BY <1>4, <2>1 DEF Save, AbstractLog
  <2>3. Owing(p) = {} BY <1>4 DEF Save, Locked, Undisturbed, Owing, Pending
  <2>4. \A q \in Path : Owing(q)' = Owing(q) BY <2>1 DEF Owing
  <2>5. file'[p].by = v /\ \A q \in Path : q # p => file'[q] = file[q]
        BY <1>4 DEF Save, OutboxInv, TypeOK
  <2>6. ASSUME NEW q \in Path PROVE AbstractDoc'[q] = IF q = p THEN v ELSE AbstractDoc[q]
    <3>1. CASE Owing(q) = {}
          BY <2>3, <2>4, <2>5, <3>1 DEF AbstractDoc
    <3>2. CASE Owing(q) # {}
      <4>1. q # p BY <2>3, <3>2
      <4>2. AbstractDoc[q] = CHOOSE o \in Owing(q) : TRUE BY <3>2 DEF AbstractDoc
      <4>3. AbstractDoc'[q] = CHOOSE o \in Owing(q)' : TRUE BY <2>4, <3>2 DEF AbstractDoc
      <4> QED BY <2>4, <4>1, <4>2, <4>3
    <3> QED BY <3>1, <3>2
  <2>7. AbstractDoc' = [AbstractDoc EXCEPT ![p] = v]
        BY <2>6 DEF AbstractDoc
  <2> QED BY <2>2, <2>7 DEF Abstract!Save
<1>5. ASSUME UNCHANGED durableVars PROVE UNCHANGED <<AbstractDoc, AbstractLog>>
      BY <1>5, AbstractUnchanged DEF durableVars
<1>6. CASE Scan \/ Refuse \/ Decide \/ Verify \/ Raise \/ Conflict \/ Crash
      BY <1>5, <1>6 DEF Scan, Refuse, Decide, Verify, Raise, Conflict, Crash
<1>7. ASSUME NEW o \in Op, Begin(o) PROVE UNCHANGED <<AbstractDoc, AbstractLog>>
      BY <1>5, <1>7 DEF Begin
<1>8. CASE UNCHANGED vars BY <1>5, <1>8 DEF vars
<1> QED BY <1>1, <1>2, <1>3, <1>4, <1>6, <1>7, <1>8 DEF Next, OutboxStep, Abstract!Next

(***************************************************************************)
(* If the process only ever dies and no step raises, the outbox implements *)
(* AtomicCommit: state and events take effect together, once, and in the   *)
(* order of the rows, across any number of crashes and restarts.           *)
(***************************************************************************)
THEOREM CrashAtomicity ==
    ASSUME ~CanRaise
    PROVE  Spec => Implements
<1>1. Init => CrashInv
  <2>1. Init => OutboxInv BY OutboxInit
  <2>2. Init => Undisturbed BY DEF Init, Undisturbed, Pending
  <2> QED BY <2>1, <2>2 DEF CrashInv
<1>2. CrashInv /\ [Next]_vars => CrashInv'
      BY OutboxStepPreserves, UndisturbedPreserved DEF CrashInv
<1>3. Init => Abstract!Init
  <2> SUFFICES ASSUME Init PROVE Abstract!Init OBVIOUS
  <2>1. Pending = {} BY DEF Init, Pending
  <2>2. \A p \in Path : Owing(p) = {} BY <2>1 DEF Owing
  <2>3. AbstractDoc = [p \in Path |-> NoDoc] BY <2>2 DEF AbstractDoc, Init
  <2>4. AbstractLog = <<>> BY <2>1 DEF AbstractLog, Init
  <2> QED BY <2>3, <2>4 DEF Abstract!Init
<1>4. CrashInv /\ [Next]_vars => [Abstract!Next]_<<AbstractDoc, AbstractLog>>
      BY StepImplements
<1> QED BY <1>1, <1>2, <1>3, <1>4, PTL DEF Spec, Implements, Abstract!Spec

-----------------------------------------------------------------------------
(***************************************************************************)
(* Where the contents of documents come from: an operation's once it has a *)
(* row, a plain save's once it is saved.  So an operation is never made    *)
(* from itself, and a save after its read-back is nothing it was made from.*)
(***************************************************************************)
Known(c) ==
    /\ c \in Op => row[c] # "none"
    /\ c \in Plain => c \in saved

Origins ==
    /\ \A p \in Path : Known(file[p].by)
    /\ \A o \in Op : row[o] # "none" =>
          \A p \in Path : Known(base[o][p]) /\ base[o][p] # o
    /\ stage = "finalize" => \A p \in Writes[cur] : file[p].by # base[cur][p]

LEMMA OriginsInit == Init => Origins
BY OutboxAssumption DEF Init, Origins, Known

(***************************************************************************)
(* Rows are never taken back and saves are never forgotten, so what was    *)
(* known stays known.                                                      *)
(***************************************************************************)
LEMMA OriginsUnchanged ==
    ASSUME Origins, UNCHANGED <<durableVars, base, saved>>,
           stage' # "finalize" \/ UNCHANGED <<stage, cur>>
    PROVE  Origins'
BY DEF Origins, Known, durableVars

LEMMA OriginsPreserved == OutboxInv /\ Origins /\ [Next]_vars => Origins'
<1> SUFFICES ASSUME OutboxInv, Origins, [Next]_vars PROVE Origins' OBVIOUS
<1> USE OutboxAssumption
<1>0. /\ row \in [Op -> {"none", "pending", "applied"}]
      /\ file \in [Path -> [by : Content, rev : Nat]]
      /\ base \in [Op -> [Path -> Content]]
      BY DEF OutboxInv, TypeOK
<1>1. ASSUME NEW o \in Op, Begin(o) PROVE Origins'
      BY <1>1, OriginsUnchanged DEF Begin
<1>2. CASE Scan \/ Decide \/ Refuse
      BY <1>2, OriginsUnchanged DEF Scan, Decide, Refuse, Unlock
<1>3. CASE Raise \/ Conflict \/ Crash
      BY <1>3, OriginsUnchanged DEF Raise, Conflict, Crash, Leave, Restarted, Unlock
<1>4. CASE Prepare
  <2>1. job \in Op /\ row[job] = "none" BY <1>4 DEF Prepare, OutboxInv, Control
  <2>2. /\ \A o \in Op : row'[o] = (IF o = job THEN "pending" ELSE row[o])
        /\ \A o \in Op, p \in Path : base'[o][p] = (IF o = job THEN file[p].by ELSE base[o][p])
        /\ UNCHANGED <<file, saved>> /\ stage' = "decide"
        BY <1>0, <1>4, <2>1 DEF Prepare
  <2>3. \A c : Known(c) => Known(c)' BY <2>2 DEF Known
  <2>4. \A p \in Path : Known(file[p].by)' BY <2>2, <2>3 DEF Origins
  <2>5. ASSUME NEW o \in Op, row'[o] # "none", NEW p \in Path
        PROVE  Known(base[o][p])' /\ base'[o][p] # o
    <3>1. CASE o = job
      <4>1. base'[o][p] = file[p].by /\ Known(file[p].by) BY <2>2, <3>1 DEF Origins
      <4>2. file[p].by # job BY <2>1, <4>1 DEF Known
      <4> QED BY <2>3, <3>1, <4>1, <4>2
    <3>2. CASE o # job
      <4>1. base'[o][p] = base[o][p] /\ row[o] # "none" BY <2>2, <2>5, <3>2
      <4> QED BY <2>3, <4>1 DEF Origins
    <3> QED BY <3>1, <3>2
  <2> QED BY <2>2, <2>4, <2>5 DEF Origins
<1>5. ASSUME NEW p \in Path, Replace(p) PROVE Origins'
  <2>1. cur \in Op /\ row[cur] # "none" /\ stage' = "replace"
        BY <1>5 DEF Replace, OutboxInv, Control
  <2>2. /\ \A q \in Path : file'[q].by = (IF q = p THEN cur ELSE file[q].by)
        /\ UNCHANGED <<row, base, saved>>
        BY <1>0, <1>5 DEF Replace
  <2>3. \A c : Known(c)' <=> Known(c) BY <2>2 DEF Known
  <2>4. Known(cur) BY <2>1 DEF Known
  <2>5. ASSUME NEW q \in Path PROVE Known(file[q].by)'
    <3>1. Known(file'[q].by) BY <2>2, <2>4 DEF Origins
    <3> QED BY <2>3, <3>1
  <2> QED BY <2>1, <2>2, <2>3, <2>5 DEF Origins
<1>6. CASE Verify
  <2>1. cur \in Op /\ row[cur] # "none" /\ Writes[cur] \subseteq Path
        BY <1>6 DEF Verify, OutboxInv, Control
  <2>2. \A p \in Writes[cur] : file[p].by = cur /\ base[cur][p] # cur
        BY <1>6, <2>1 DEF Verify, Changed, Own, Origins
  <2> QED BY <1>6, <2>2 DEF Verify, durableVars, Origins, Known
<1>7. CASE Finalize
  <2>1. cur \in Op /\ row[cur] = "pending" BY <1>7 DEF Finalize, OutboxInv, Control
  <2>2. /\ \A o \in Op : row'[o] # "none" <=> row[o] # "none"
        /\ UNCHANGED <<file, base, saved>> /\ stage' # "finalize"
        BY <1>0, <1>7, <2>1 DEF Finalize, Unlock
  <2> QED BY <2>2 DEF Origins, Known
<1>8. ASSUME NEW p \in Path, NEW v \in Plain, Save(p, v) PROVE Origins'
  <2>1. /\ \A q \in Path : file'[q].by = (IF q = p THEN v ELSE file[q].by)
        /\ UNCHANGED <<row, base, stage, cur>> /\ saved' = saved \cup {v} /\ v \notin saved
        BY <1>0, <1>8 DEF Save, processVars
  <2>2. \A c : Known(c) => Known(c)' BY <2>1 DEF Known
  <2>3. ~Known(v) /\ Known(v)' BY <2>1 DEF Known
  <2>4. ASSUME NEW q \in Path PROVE Known(file[q].by)'
    <3>1. CASE q = p BY <2>1, <2>3, <3>1
    <3>2. CASE q # p BY <2>1, <2>2, <3>2 DEF Origins
    <3> QED BY <3>1, <3>2
  <2>5. ASSUME stage' = "finalize", NEW q \in Writes[cur] PROVE file'[q].by # base[cur][q]
    <3>1. cur \in Op /\ row[cur] # "none" /\ q \in Path /\ stage = "finalize"
          BY <2>1, <2>5 DEF OutboxInv, Control
    <3>2. Known(base[cur][q]) /\ file[q].by # base[cur][q] BY <2>5, <3>1 DEF Origins
    <3> QED BY <2>1, <2>3, <3>1, <3>2
  <2> QED BY <2>1, <2>2, <2>4, <2>5 DEF Origins
<1>9. CASE UNCHANGED vars
      BY <1>9, OriginsUnchanged DEF vars, durableVars, processVars
<1> QED BY <1>1, <1>2, <1>3, <1>4, <1>5, <1>6, <1>7, <1>8, <1>9 DEF Next, OutboxStep

(***************************************************************************)
(* State before events: _finalize commits the events of an operation only  *)
(* when none of its documents is what it was made from any more, although  *)
(* plain saves may change them between the read-back and the commit.       *)
(***************************************************************************)
THEOREM EventsFollowState == Spec => StateBeforeEvents
<1> DEFINE Ready == \A o \in Op : (row[o] = "pending" /\ row'[o] = "applied")
                       => \A p \in Writes[o] : file[p].by # base[o][p]
<1>1. OutboxInv /\ Origins /\ [Next]_vars => [Ready]_vars
  <2> SUFFICES ASSUME OutboxInv, Origins, Next, NEW o \in Op, row[o] = "pending",
                      row'[o] = "applied", NEW p \in Writes[o]
               PROVE  file[p].by # base[o][p]
      OBVIOUS
  <2>1. row \in [Op -> {"none", "pending", "applied"}] BY DEF OutboxInv, TypeOK
  <2>2. Finalize
    <3>1. CASE Prepare BY <2>1, <3>1 DEF Prepare
    <3>2. CASE UNCHANGED row BY <3>2
    <3>3. Finalize \/ Prepare \/ UNCHANGED row
      <4>1. OutboxStep => Finalize \/ Prepare \/ UNCHANGED row
            BY DEF OutboxStep, Scan, Decide, Verify, Replace, durableVars
      <4> QED BY <4>1 DEF Next, Begin, Refuse, Raise, Conflict, Crash, Save, durableVars
    <3> QED BY <3>1, <3>2, <3>3
  <2>3. o = cur /\ stage = "finalize" BY <2>1, <2>2 DEF Finalize
  <2> QED BY <2>3 DEF Origins
<1>2. Init => OutboxInv /\ Origins BY OutboxInit, OriginsInit
<1>3. OutboxInv /\ Origins /\ [Next]_vars => OutboxInv' /\ Origins'
      BY OutboxStepPreserves, OriginsPreserved
<1> QED BY <1>1, <1>2, <1>3, PTL DEF Spec, StateBeforeEvents
=============================================================================
