---------------------------- MODULE LedgerProofs ----------------------------
(***************************************************************************)
(* Theorems about JsonlLedger for any set of runs that share the file, any *)
(* number of trials, and any tears: what append() acknowledged is durable, *)
(* and the durable prefix is never rewritten.                              *)
(***************************************************************************)
EXTENDS JsonlLedger, SequenceTheorems, TLAPS

-----------------------------------------------------------------------------
(* Lemmas on the file.                                                     *)

(* An append keeps every write before it, and every prefix. *)
LEMMA AppendKeeps ==
  ASSUME NEW S, NEW s \in Seq(S), NEW e \in S
  PROVE  /\ Append(s, e) \in Seq(S) /\ Len(Append(s, e)) = Len(s) + 1 /\ Len(s) \in Nat
         /\ \A i \in 1..Len(s) : Append(s, e)[i] = s[i]
         /\ Append(s, e)[Len(s) + 1] = e
  OBVIOUS

(* A prefix is a sequence of its length. *)
LEMMA PrefixTyped ==
  ASSUME NEW S, NEW s \in Seq(S), NEW n \in 0..Len(s)
  PROVE  /\ SubSeq(s, 1, n) \in Seq(S) /\ Len(SubSeq(s, 1, n)) = n
         /\ \A i \in 1..n : SubSeq(s, 1, n)[i] = s[i]
  OBVIOUS

(* Two sequences that agree up to n have the same prefix of length n. *)
LEMMA PrefixEqual ==
  ASSUME NEW S, NEW s \in Seq(S), NEW t \in Seq(S), NEW n \in Nat,
         n <= Len(s), n <= Len(t), \A i \in 1..n : s[i] = t[i]
  PROVE  SubSeq(s, 1, n) = SubSeq(t, 1, n)
<1>1. n \in 0..Len(s) /\ n \in 0..Len(t)
  OBVIOUS
<1> QED  BY <1>1, PrefixTyped, SeqEqual

(* Tearing the last write of a prefix changes that write only. *)
LEMMA TearTyped ==
  ASSUME NEW s \in Seq(Writes), NEW n \in 1..Len(s), NEW form \in Forms
  PROVE  LET t == [SubSeq(s, 1, n) EXCEPT ![n].form = form]
         IN  /\ t \in Seq(Writes) /\ Len(t) = n
             /\ \A i \in 1..(n - 1) : t[i] = s[i]
<1> DEFINE p == SubSeq(s, 1, n)
           w == [p[n] EXCEPT !.form = form]
           t == [p EXCEPT ![n] = w]
<1>1. p \in Seq(Writes) /\ Len(p) = n /\ \A i \in 1..n : p[i] = s[i]
  BY PrefixTyped
<1>2. p[n] \in Writes
  BY <1>1
<1>3. w \in Writes
  BY <1>2 DEF Writes
<1> HIDE DEF p, w
<1>4. t \in Seq(Writes) /\ Len(t) = n /\ \A i \in 1..(n - 1) : t[i] = p[i]
  BY <1>1, <1>3
<1>5. \A i \in 1..(n - 1) : t[i] = s[i]
  BY <1>1, <1>4
<1> QED  BY <1>4, <1>5 DEF p, w

-----------------------------------------------------------------------------
(* Type correctness.                                                       *)

(* A run that may still append has a trial left. *)
Room == \A r \in Runs : pc[r] \in {"idle"} \union Active => next[r] < Trials

(* The key of the next append is a key. *)
LEMMA NextKeyTyped ==
  ASSUME TypeOK, Room, NEW r \in Runs, pc[r] \in Active
  PROVE  NextKey(r) \in Keys
<1>1. Trials \in Nat \ {0} /\ next[r] \in 0..Trials /\ next[r] < Trials /\ exp[r] \in Experiments
  BY LedgerAssumption DEF TypeOK, Room
<1>2. next[r] \in 0..(Trials - 1)
  BY <1>1
<1> QED  BY <1>1, <1>2 DEF NextKey, Keys

(* What a write leaves in the file is typed, and keeps what was there. *)
LEMMA WriteTyped ==
  ASSUME TypeOK, Room, NEW r \in Runs, pc[r] \in Active, NEW form \in Forms, Write(r, form)
  PROVE  /\ file' \in Seq(Writes) /\ Len(file') = Len(file) + 1 /\ Len(file) \in Nat
         /\ \A i \in 1..Len(file) : file'[i] = file[i]
         /\ file'[Len(file) + 1] = [key |-> NextKey(r), form |-> form, by |-> r]
<1> DEFINE w == [key |-> NextKey(r), form |-> form, by |-> r]
<1>1. w \in Writes
  BY NextKeyTyped DEF Writes
<1>2. file \in Seq(Writes) /\ file' = Append(file, w)
  BY DEF TypeOK, Write
<1> HIDE DEF w
<1>3. /\ file' \in Seq(Writes) /\ Len(file') = Len(file) + 1 /\ Len(file) \in Nat
      /\ \A i \in 1..Len(file) : file'[i] = file[i]
      /\ file'[Len(file) + 1] = w
  BY <1>1, <1>2, AppendKeeps
<1> QED  BY <1>3 DEF w

(* A step of one run that leaves the file alone. *)
LEMMA QuietTyped ==
  ASSUME TypeOK, Room, NEW r \in Runs,
         \/ Open(r) \/ CliStart(r) \/ LibraryStart(r) \/ AppendRefused(r)
         \/ Fsync(r) \/ Remember(r) \/ Dies(r)
  PROVE  TypeOK' /\ Room'
<1> USE DEF TypeOK, Room, Become, Active, Over
<1>1. CASE Open(r)
  <2>1. \A i \in 1..Len(file) : file[i].key \in Keys
    <3>1. \A i \in 1..Len(file) : file[i] \in Writes
      OBVIOUS
    <3> QED  BY <3>1 DEF Writes
  <2>2. keys' \in [Runs -> SUBSET Keys]
    BY <1>1, <2>1 DEF Open
  <2> QED  BY <1>1, <2>2 DEF Open
<1>2. CASE CliStart(r) \/ LibraryStart(r) \/ AppendRefused(r) \/ Dies(r)
  BY <1>2 DEF CliStart, LibraryStart, AppendRefused, Dies
<1>3. CASE Fsync(r)
  BY <1>3 DEF Fsync
<1>4. CASE Remember(r)
  <2>1. NextKey(r) \in Keys
    BY <1>4, NextKeyTyped DEF Remember
  <2>2. next[r] \in Nat /\ next[r] < Trials /\ Trials \in Nat
    BY <1>4, LedgerAssumption DEF Remember
  <2>3. next' \in [Runs -> 0..Trials]
    BY <1>4, <2>2 DEF Remember
  <2>4. keys' \in [Runs -> SUBSET Keys] /\ acked' \subseteq Keys \X Runs
    BY <1>4, <2>1 DEF Remember
  <2>5. pc' \in [Runs -> {"idle"} \union Active \union Over]
    BY <1>4 DEF Remember
  <2>6. Room'
    BY <1>4, <2>2 DEF Remember
  <2> QED  BY <1>4, <2>3, <2>4, <2>5, <2>6 DEF Remember
<1> QED  BY <1>1, <1>2, <1>3, <1>4

(* A write, whole or torn. *)
LEMMA AppendTyped ==
  ASSUME TypeOK, Room, NEW r \in Runs, AppendWrites(r) \/ AppendTears(r)
  PROVE  /\ TypeOK' /\ Room'
         /\ Len(file') = Len(file) + 1 /\ Len(file) \in Nat
         /\ \A i \in 1..Len(file) : file'[i] = file[i]
<1>1. pc[r] \in Active
  BY DEF AppendWrites, AppendTears, Active
<1>2. PICK form \in Forms : Write(r, form)
  BY LedgerAssumption DEF AppendWrites, AppendTears, Forms
<1>3. /\ file' \in Seq(Writes) /\ Len(file') = Len(file) + 1 /\ Len(file) \in Nat
      /\ \A i \in 1..Len(file) : file'[i] = file[i]
  BY <1>1, <1>2, WriteTyped
<1>4. synced' \in 0..Len(file')
  BY <1>3 DEF TypeOK, AppendWrites, AppendTears
<1>5. pc' \in [Runs -> {"idle"} \union Active \union Over] /\ Room'
  BY DEF TypeOK, Room, AppendWrites, AppendTears, Become, Active, Over
<1> QED  BY <1>3, <1>4, <1>5 DEF TypeOK, AppendWrites, AppendTears

(* A power cut keeps what was synced. *)
LEMMA PowerCutTyped ==
  ASSUME TypeOK, Room, PowerCut
  PROVE  /\ TypeOK' /\ Room'
         /\ synced <= synced' /\ \A i \in 1..synced : file'[i] = file[i]
         /\ \A r \in Runs : pc'[r] \notin Active
<1>1. PICK kept \in synced..Len(file) :
        \/ file' = SubSeq(file, 1, kept)
        \/ kept > synced /\ \E form \in Tears : file' = [SubSeq(file, 1, kept) EXCEPT ![kept].form = form]
  BY DEF PowerCut
<1>2. file \in Seq(Writes) /\ synced \in Nat /\ Len(file) \in Nat /\ kept \in 0..Len(file)
  BY DEF TypeOK
<1>3. file' \in Seq(Writes) /\ Len(file') = kept /\ \A i \in 1..synced : file'[i] = file[i]
  <2>1. CASE file' = SubSeq(file, 1, kept)
    BY <1>2, <2>1, PrefixTyped
  <2>2. CASE kept > synced /\ \E form \in Tears : file' = [SubSeq(file, 1, kept) EXCEPT ![kept].form = form]
    <3>1. PICK form \in Forms : file' = [SubSeq(file, 1, kept) EXCEPT ![kept].form = form]
      BY <2>2, LedgerAssumption DEF Forms
    <3>2. kept \in 1..Len(file)
      BY <1>2, <2>2
    <3>3. file' \in Seq(Writes) /\ Len(file') = kept /\ \A i \in 1..(kept - 1) : file'[i] = file[i]
      BY <1>2, <3>1, <3>2, TearTyped
    <3>4. \A i \in 1..synced : i \in 1..(kept - 1)
      BY <1>2, <2>2, <3>2
    <3> QED  BY <3>3, <3>4
  <2> QED  BY <1>1, <2>1, <2>2
<1>4. synced' = kept /\ synced <= synced' /\ synced' \in 0..Len(file')
  BY <1>2, <1>3 DEF PowerCut
<1>5. /\ pc' \in [Runs -> {"idle"} \union Active \union Over] /\ Room'
      /\ \A r \in Runs : pc'[r] \notin Active
  BY DEF TypeOK, Room, PowerCut, Active, Over
<1> QED  BY <1>3, <1>4, <1>5 DEF TypeOK, PowerCut

(* Every step keeps the types. *)
LEMMA TypeStep == TypeOK /\ Room /\ [Next]_vars => TypeOK' /\ Room'
<1> SUFFICES ASSUME TypeOK, Room, [Next]_vars  PROVE TypeOK' /\ Room'
  OBVIOUS
<1>1. CASE AllOver \/ UNCHANGED vars
  BY <1>1 DEF TypeOK, Room, AllOver, vars
<1> QED  BY <1>1, QuietTyped, AppendTyped, PowerCutTyped DEF Next

(* The initial state is typed. *)
LEMMA InitTyped == Init => TypeOK /\ Room
<1> SUFFICES ASSUME Init PROVE TypeOK /\ Room
  OBVIOUS
<1>1. Trials \in Nat /\ Trials > 0 /\ 0 \in 0..Trials
  BY LedgerAssumption
<1>2. file \in Seq(Writes) /\ synced \in 0..Len(file)
  BY DEF Init
<1>3. /\ next \in [Runs -> 0..Trials] /\ keys \in [Runs -> SUBSET Keys]
      /\ pc \in [Runs -> {"idle"} \union Active \union Over] /\ Room
  BY <1>1 DEF Init, Room
<1> QED  BY <1>2, <1>3 DEF Init, TypeOK

(* Every variable keeps its kind, for any runs and any number of trials. *)
THEOREM TypeCorrect == Spec => []TypeOK
<1>1. Spec => [](TypeOK /\ Room)
  BY InitTyped, TypeStep, PTL DEF Spec
<1> QED  BY <1>1, PTL

-----------------------------------------------------------------------------
(* What is on stable storage.                                              *)

(* No step shortens or rewrites what is on stable storage.                 *)
LEMMA PrefixKept ==
  ASSUME TypeOK, Room, [Next]_vars
  PROVE  synced <= synced' /\ \A i \in 1..synced : file'[i] = file[i]
<1>1. synced \in Nat /\ Len(file) \in Nat /\ synced <= Len(file)
  BY DEF TypeOK
<1>2. ASSUME NEW r \in Runs, AppendWrites(r) \/ AppendTears(r)
      PROVE  synced <= synced' /\ \A i \in 1..synced : file'[i] = file[i]
  <2>1. \A i \in 1..Len(file) : file'[i] = file[i]
    BY <1>2, AppendTyped
  <2>2. synced' = synced
    BY <1>2 DEF AppendWrites, AppendTears
  <2> QED  BY <1>1, <2>1, <2>2
<1>3. ASSUME NEW r \in Runs, Fsync(r)
      PROVE  synced <= synced' /\ file' = file
  BY <1>1, <1>3 DEF Fsync
<1>4. ASSUME NEW r \in Runs,
             Open(r) \/ CliStart(r) \/ LibraryStart(r) \/ AppendRefused(r) \/ Remember(r) \/ Dies(r)
      PROVE  synced <= synced' /\ file' = file
  BY <1>1, <1>4 DEF Open, CliStart, LibraryStart, AppendRefused, Remember, Dies
<1>5. CASE AllOver \/ UNCHANGED vars
  BY <1>1, <1>5 DEF AllOver, vars
<1> QED  BY <1>2, <1>3, <1>4, <1>5, PowerCutTyped DEF Next

(* The write a run is busy with. *)
Mine(r) == [key |-> NextKey(r), form |-> "whole", by |-> r]

(* It is in the file before the fsync, and on stable storage after it. *)
UnderWay ==
  /\ \A r \in Runs : pc[r] = "written" => \E i \in 1..Len(file) : file[i] = Mine(r)
  /\ \A r \in Runs : pc[r] = "synced" => \E i \in 1..synced : file[i] = Mine(r)

IInv == TypeOK /\ Room /\ UnderWay /\ AckedIsDurable

(* A run that keeps its place keeps its write, when the file keeps it. *)
LEMMA OthersUnderWay ==
  ASSUME IInv, NEW q \in Runs, pc'[q] = pc[q], exp'[q] = exp[q], next'[q] = next[q],
         synced <= synced', synced' \in Nat, \A i \in 1..synced : file'[i] = file[i],
         Len(file) <= Len(file'), Len(file') \in Nat, \A i \in 1..Len(file) : file'[i] = file[i]
  PROVE  /\ pc'[q] = "written" => \E i \in 1..Len(file') : file'[i] = Mine(q)'
         /\ pc'[q] = "synced" => \E i \in 1..synced' : file'[i] = Mine(q)'
<1>1. Mine(q)' = Mine(q)
  BY DEF Mine, NextKey
<1>2. synced \in Nat /\ Len(file) \in Nat
  BY DEF IInv, TypeOK
<1>3. ASSUME pc'[q] = "written"
      PROVE  \E i \in 1..Len(file') : file'[i] = Mine(q)'
  <2>1. PICK i \in 1..Len(file) : file[i] = Mine(q)
    BY <1>3 DEF IInv, UnderWay
  <2>2. i \in 1..Len(file')
    BY <1>2, <2>1
  <2> QED  BY <1>1, <2>1, <2>2
<1>4. ASSUME pc'[q] = "synced"
      PROVE  \E i \in 1..synced' : file'[i] = Mine(q)'
  <2>1. PICK i \in 1..synced : file[i] = Mine(q)
    BY <1>4 DEF IInv, UnderWay
  <2>2. i \in 1..synced'
    BY <1>2, <2>1
  <2> QED  BY <1>1, <2>1, <2>2
<1> QED  BY <1>3, <1>4

(* What was acknowledged stays durable in a step that acknowledges nothing. *)
LEMMA AcksKept ==
  ASSUME IInv, acked' = acked, synced <= synced', synced' \in Nat,
         \A i \in 1..synced : file'[i] = file[i]
  PROVE  AckedIsDurable'
<1>1. synced \in Nat
  BY DEF IInv, TypeOK
<1> SUFFICES ASSUME NEW ack \in acked
             PROVE  \E i \in 1..synced' : file'[i] = [key |-> ack[1], form |-> "whole", by |-> ack[2]]
  BY DEF AckedIsDurable
<1>2. PICK i \in 1..synced : file[i] = [key |-> ack[1], form |-> "whole", by |-> ack[2]]
  BY DEF IInv, AckedIsDurable
<1>3. i \in 1..synced'
  BY <1>1, <1>2
<1> QED  BY <1>2, <1>3

(* A step that only moves run r, whose next write is not yet in the file.  *)
LEMMA RunSafe ==
  ASSUME IInv, NEW r \in Runs,
         \/ Open(r) \/ CliStart(r) \/ LibraryStart(r) \/ AppendRefused(r)
         \/ AppendTears(r) \/ Dies(r)
  PROVE  UnderWay' /\ AckedIsDurable'
<1>1. TypeOK /\ Room /\ TypeOK' /\ synced \in Nat /\ Len(file) \in Nat /\ pc \in [Runs -> {"idle"} \union Active \union Over]
  BY QuietTyped, AppendTyped DEF IInv, TypeOK
<1>2. /\ acked' = acked /\ synced' = synced /\ exp' = exp /\ next' = next
      /\ pc'[r] \notin {"written", "synced"}
      /\ \A q \in Runs \ {r} : pc'[q] = pc[q]
  BY <1>1 DEF Open, CliStart, LibraryStart, AppendRefused, AppendTears, Dies, Become
<1>3. Len(file') \in Nat /\ Len(file) <= Len(file') /\ \A i \in 1..Len(file) : file'[i] = file[i]
  <2>1. CASE AppendTears(r)
    BY <1>1, <2>1, AppendTyped
  <2>2. CASE Open(r) \/ CliStart(r) \/ LibraryStart(r) \/ AppendRefused(r) \/ Dies(r)
    BY <1>1, <2>2 DEF Open, CliStart, LibraryStart, AppendRefused, Dies
  <2> QED  BY <2>1, <2>2
<1>4. \A i \in 1..synced : file'[i] = file[i]
  BY <1>1, <1>3 DEF TypeOK
<1>5. UnderWay'
  BY <1>1, <1>2, <1>3, <1>4, OthersUnderWay DEF UnderWay
<1> QED  BY <1>1, <1>2, <1>4, <1>5, AcksKept

(* The three steps of an append that succeeds. *)
LEMMA AppendSafe ==
  ASSUME IInv, NEW r \in Runs, AppendWrites(r) \/ Fsync(r) \/ Remember(r)
  PROVE  UnderWay' /\ AckedIsDurable'
<1>1. TypeOK /\ Room /\ synced \in Nat /\ Len(file) \in Nat /\ synced <= Len(file)
      /\ pc \in [Runs -> {"idle"} \union Active \union Over] /\ file \in Seq(Writes)
      /\ next \in [Runs -> 0..Trials]
  BY DEF IInv, TypeOK
<1>2. CASE AppendWrites(r)
  <2>1. /\ Len(file') = Len(file) + 1 /\ \A i \in 1..Len(file) : file'[i] = file[i]
        /\ file'[Len(file) + 1] = Mine(r)
    <3>1. pc[r] \in Active /\ "whole" \in Forms /\ Write(r, "whole")
      BY <1>2 DEF AppendWrites, Active, Forms
    <3> QED  BY <1>1, <3>1, WriteTyped DEF Mine
  <2>2. /\ acked' = acked /\ synced' = synced /\ exp' = exp /\ next' = next /\ pc'[r] = "written"
        /\ \A q \in Runs \ {r} : pc'[q] = pc[q]
    BY <1>1, <1>2 DEF AppendWrites, Become
  <2>3. Mine(r)' = Mine(r) /\ Len(file) + 1 \in 1..Len(file')
    BY <1>1, <2>1, <2>2 DEF Mine, NextKey
  <2>4. \A i \in 1..synced : file'[i] = file[i]
    BY <1>1, <2>1
  <2>5. \E i \in 1..Len(file') : file'[i] = Mine(r)'
    BY <2>1, <2>3
  <2>6. Len(file') \in Nat /\ Len(file) <= Len(file')
    BY <1>1, <2>1
  <2>7. ASSUME NEW q \in Runs \ {r}
        PROVE  /\ pc'[q] = "written" => \E i \in 1..Len(file') : file'[i] = Mine(q)'
               /\ pc'[q] = "synced" => \E i \in 1..synced' : file'[i] = Mine(q)'
    <3>1. pc'[q] = pc[q] /\ exp'[q] = exp[q] /\ next'[q] = next[q]
      BY <2>2
    <3> QED  BY <1>1, <2>1, <2>2, <2>4, <2>6, <3>1, OthersUnderWay
  <2>8. UnderWay'
    BY <2>2, <2>5, <2>7 DEF UnderWay
  <2> QED  BY <1>1, <2>2, <2>4, <2>8, AcksKept
<1>3. CASE Fsync(r)
  <2>1. /\ acked' = acked /\ synced' = Len(file) /\ file' = file /\ exp' = exp /\ next' = next
        /\ pc[r] = "written" /\ pc'[r] = "synced" /\ \A q \in Runs \ {r} : pc'[q] = pc[q]
    BY <1>1, <1>3 DEF Fsync, Become
  <2>2. \E i \in 1..synced' : file'[i] = Mine(r)'
    <3>1. PICK i \in 1..Len(file) : file[i] = Mine(r)
      BY <2>1 DEF IInv, UnderWay
    <3> QED  BY <2>1, <3>1 DEF Mine, NextKey
  <2>3. UnderWay'
    BY <1>1, <2>1, <2>2, OthersUnderWay DEF UnderWay
  <2> QED  BY <1>1, <2>1, <2>3, AcksKept
<1>4. CASE Remember(r)
  <2>1. /\ acked' = acked \union {<<NextKey(r), r>>} /\ synced' = synced /\ file' = file /\ exp' = exp
        /\ pc[r] = "synced" /\ pc'[r] \notin {"written", "synced"}
        /\ \A q \in Runs \ {r} : pc'[q] = pc[q] /\ next'[q] = next[q]
    BY <1>1, <1>4 DEF Remember, Become
  <2>2. UnderWay'
    BY <1>1, <2>1, OthersUnderWay DEF UnderWay
  <2>3. ASSUME NEW ack \in acked'
        PROVE  \E i \in 1..synced' : file'[i] = [key |-> ack[1], form |-> "whole", by |-> ack[2]]
    <3>1. CASE ack \in acked
      BY <2>1, <3>1 DEF IInv, AckedIsDurable
    <3>2. CASE ack = <<NextKey(r), r>>
      <4>1. PICK i \in 1..synced : file[i] = Mine(r)
        BY <2>1 DEF IInv, UnderWay
      <4> QED  BY <2>1, <3>2, <4>1 DEF Mine
    <3> QED  BY <2>1, <2>3, <3>1, <3>2
  <2> QED  BY <2>2, <2>3 DEF AckedIsDurable
<1> QED  BY <1>2, <1>3, <1>4

(* The invariant holds in every behaviour of the ledger. *)
THEOREM Invariance == Spec => []IInv
<1>1. Init => IInv
  BY InitTyped DEF Init, IInv, UnderWay, AckedIsDurable
<1>2. IInv /\ [Next]_vars => IInv'
  <2> SUFFICES ASSUME IInv, [Next]_vars  PROVE UnderWay' /\ AckedIsDurable'
    BY TypeStep DEF IInv
  <2>1. CASE PowerCut
    <3>1. /\ TypeOK' /\ synced <= synced' /\ \A i \in 1..synced : file'[i] = file[i]
          /\ \A r \in Runs : pc'[r] \notin Active
      BY <2>1, PowerCutTyped DEF IInv
    <3>2. acked' = acked /\ synced' \in Nat
      BY <2>1, <3>1 DEF PowerCut, TypeOK
    <3>3. UnderWay'
      BY <3>1 DEF UnderWay, Active
    <3> QED  BY <3>1, <3>2, <3>3, AcksKept
  <2>2. CASE AllOver \/ UNCHANGED vars
    BY <2>2 DEF AllOver, vars, IInv, UnderWay, AckedIsDurable, Mine, NextKey
  <2> QED  BY <2>1, <2>2, RunSafe, AppendSafe DEF Next
<1> QED  BY <1>1, <1>2, PTL DEF Spec

(* A record whose append() returned is on stable storage and stays there,  *)
(* for any number of runs sharing the file and whatever crashes.           *)
THEOREM AckedIsDurableHolds == Spec => []AckedIsDurable
<1>1. IInv => AckedIsDurable
  BY DEF IInv
<1> QED  BY <1>1, Invariance, PTL

(* What is on stable storage is never shortened or rewritten, by an append *)
(* of any run, a torn write or a power cut.                                *)
THEOREM AppendOnlyHolds == Spec => AppendOnly
<1>1. IInv /\ IInv' /\ [Next]_vars =>
        [synced' >= synced /\ SubSeq(file', 1, synced) = SubSeq(file, 1, synced)]_vars
  <2> SUFFICES ASSUME IInv, IInv', [Next]_vars
               PROVE  synced' >= synced /\ SubSeq(file', 1, synced) = SubSeq(file, 1, synced)
    OBVIOUS
  <2>1. synced <= synced' /\ \A i \in 1..synced : file'[i] = file[i]
    BY PrefixKept DEF IInv
  <2>2. /\ synced \in Nat /\ synced' \in Nat /\ synced <= Len(file) /\ synced' <= Len(file')
        /\ file \in Seq(Writes) /\ file' \in Seq(Writes) /\ Len(file') \in Nat
    BY DEF IInv, TypeOK
  <2>3. synced <= Len(file')
    BY <2>1, <2>2
  <2> QED  BY <2>1, <2>2, <2>3, PrefixEqual
<1> QED  BY <1>1, Invariance, PTL DEF Spec, AppendOnly
=============================================================================
