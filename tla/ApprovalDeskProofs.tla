------------------------- MODULE ApprovalDeskProofs -------------------------
(***************************************************************************)
(* The approval desk for any number of workflows, approvals, humans and    *)
(* any time: the two lists, the statistics and the log agree, what is      *)
(* overdue stays so until it is decided, and what a query of a log has     *)
(* shown it shows again.                                                   *)
(***************************************************************************)
EXTENDS ApprovalDesk, FiniteSetTheorems, SequenceTheorems, WellFoundedInduction, TLAPS

(***************************************************************************)
(* Lemmas about lists                                                      *)
(***************************************************************************)

(* No id is twice on a list. *)
OnceOn(list) == \A i, j \in DOMAIN list : list[i].id = list[j].id => i = j

LEMMA Appended ==
  ASSUME NEW S, NEW s \in Seq(S), NEW e \in S, NEW t, t = Append(s, e)
  PROVE  /\ t \in Seq(S) /\ Len(s) \in Nat /\ Len(t) = Len(s) + 1
         /\ DOMAIN s = 1..Len(s) /\ DOMAIN t = 1..(Len(s) + 1)
         /\ t[Len(s) + 1] = e /\ \A i \in DOMAIN s : t[i] = s[i]
BY AppendProperties, LenProperties

LEMMA SetAppended ==
  ASSUME NEW S, NEW s \in Seq(S), NEW e \in S
  PROVE  ToSet(Append(s, e)) = ToSet(s) \cup {e}
<1> DEFINE t == Append(s, e)
<1>1. /\ Len(s) \in Nat /\ DOMAIN s = 1..Len(s) /\ DOMAIN t = 1..(Len(s) + 1)
      /\ t[Len(s) + 1] = e /\ \A i \in DOMAIN s : t[i] = s[i]
  BY Appended
<1> HIDE DEF t
<1>2. \A i \in DOMAIN t : i \in DOMAIN s \/ i = Len(s) + 1
  BY <1>1
<1>3. \A i \in DOMAIN s : i \in DOMAIN t
  BY <1>1
<1>4. ToSet(t) = ToSet(s) \cup {e}
  BY <1>1, <1>2, <1>3 DEF ToSet
<1> QED BY <1>4 DEF t

LEMMA IdsAppended ==
  ASSUME NEW S, NEW s \in Seq(S), NEW e \in S
  PROVE  /\ IdsOn(Append(s, e)) = IdsOn(s) \cup {e.id}
         /\ OnceOn(s) /\ e.id \notin IdsOn(s) => OnceOn(Append(s, e))
<1> DEFINE t == Append(s, e)
<1>1. DOMAIN s = 1..Len(s) /\ DOMAIN t = 1..(Len(s) + 1) /\ Len(s) \in Nat
  BY Appended
<1>2. t[Len(s) + 1] = e
  BY Appended
<1>3. \A i \in DOMAIN s : t[i] = s[i]
  BY Appended
<1>4. ToSet(t) = ToSet(s) \cup {e}
  BY SetAppended
<1> HIDE DEF t
<1>5. IdsOn(t) = IdsOn(s) \cup {e.id}
  BY <1>4 DEF IdsOn
<1>6. ASSUME OnceOn(s), e.id \notin IdsOn(s) PROVE OnceOn(t)
  <2>1. \A i \in DOMAIN s : s[i].id # e.id
    BY <1>6 DEF IdsOn, ToSet
  <2>2. \A i \in DOMAIN t : i \in DOMAIN s \/ i = Len(s) + 1
    BY <1>1
  <2> QED BY <1>1, <1>6, <1>2, <1>3, <2>1, <2>2 DEF OnceOn
<1> QED BY <1>5, <1>6 DEF t

(* The entry at the end is counted if it is of the action that is counted;  *)
(* the same of the status of an approval.                                   *)
LEMMA CountedAppended ==
  ASSUME NEW S, NEW s \in Seq(S), NEW e \in S, NEW t, t = Append(s, e),
         NEW before \in SUBSET DOMAIN s, NEW after \in SUBSET DOMAIN t,
         \A i \in DOMAIN s : i \in after <=> i \in before
  PROVE  /\ IsFiniteSet(before) /\ Cardinality(before) \in Nat
         /\ Cardinality(after) = Cardinality(before) + (IF Len(s) + 1 \in after THEN 1 ELSE 0)
<1>1. DOMAIN s = 1..Len(s) /\ DOMAIN t = 1..(Len(s) + 1) /\ Len(s) \in Nat
  BY Appended
<1>2. IsFiniteSet(before) /\ Cardinality(before) \in Nat
  <2>1. IsFiniteSet(1..Len(s))
    BY <1>1, FS_Interval
  <2>2. IsFiniteSet(before)
    BY <1>1, <2>1, FS_Subset
  <2> QED BY <2>2, FS_CardinalityType
<1>3. Len(s) + 1 \notin before
  BY <1>1
<1>4. Cardinality(before \cup {Len(s) + 1}) = Cardinality(before) + 1
  BY <1>2, <1>3, FS_AddElement
<1>5. \A i \in after : i \in before \/ i = Len(s) + 1
  BY <1>1
<1>6. \A i \in before : i \in after
  BY <1>1
<1>7. CASE Len(s) + 1 \in after
  <2>1. after = before \cup {Len(s) + 1}
    BY <1>5, <1>6, <1>7
  <2> QED BY <1>2, <1>4, <1>7, <2>1
<1>8. CASE Len(s) + 1 \notin after
  <2>1. after = before
    BY <1>5, <1>6, <1>8
  <2> QED BY <1>2, <1>8, <2>1
<1> QED BY <1>7, <1>8

LEMMA Removed ==
  ASSUME NEW S, NEW s \in Seq(S), NEW i \in DOMAIN s, NEW t, t = RemoveAt(s, i)
  PROVE  /\ t \in Seq(S) /\ Len(s) \in Nat /\ Len(t) = Len(s) - 1
         /\ DOMAIN s = 1..Len(s) /\ DOMAIN t = 1..(Len(s) - 1)
         /\ \A k \in DOMAIN t : t[k] = IF k < i THEN s[k] ELSE s[k + 1]
<1>1. Len(s) \in Nat /\ DOMAIN s = 1..Len(s) /\ i \in 1..Len(s) /\ \A k \in 1..Len(s) : s[k] \in S
  BY LenProperties, ElementOfSeq
<1> DEFINE a == SubSeq(s, 1, i - 1)
           b == SubSeq(s, i + 1, Len(s))
<1>2. a \in Seq(S) /\ Len(a) = i - 1 /\ \A k \in 1..(i - 1) : a[k] = s[k]
  <2>1. \A k \in 1..(i - 1) : s[k] \in S
    BY <1>1
  <2> QED BY <1>1, <2>1, SubSeqProperties
<1>3. b \in Seq(S) /\ Len(b) = Len(s) - i /\ \A k \in 1..(Len(s) - i) : b[k] = s[k + i]
  <2>1. \A k \in (i + 1)..Len(s) : s[k] \in S
    BY <1>1
  <2>2. /\ b \in Seq(S) /\ Len(b) = (IF i + 1 <= Len(s) THEN Len(s) - (i + 1) + 1 ELSE 0)
        /\ \A k \in 1..(Len(s) - (i + 1) + 1) : b[k] = s[(i + 1) + k - 1]
    BY <1>1, <2>1, SubSeqProperties
  <2>3. Len(s) - (i + 1) + 1 = Len(s) - i /\ (i + 1 > Len(s) => Len(s) - i = 0)
    BY <1>1
  <2>4. \A k \in 1..(Len(s) - i) : b[k] = s[k + i]
    <3> TAKE k \in 1..(Len(s) - i)
    <3>1. (i + 1) + k - 1 = k + i /\ k \in 1..(Len(s) - (i + 1) + 1)
      BY <1>1
    <3> QED BY <2>2, <3>1
  <2>5. Len(b) = Len(s) - i
    BY <1>1, <2>2, <2>3
  <2> QED BY <2>2, <2>4, <2>5
<1> HIDE DEF a, b
<1>4. t = a \o b
  BY DEF a, b, RemoveAt
<1>5. /\ t \in Seq(S) /\ Len(t) = Len(a) + Len(b)
      /\ \A k \in 1..(Len(a) + Len(b)) : t[k] = IF k <= Len(a) THEN a[k] ELSE b[k - Len(a)]
  BY <1>2, <1>3, <1>4, ConcatProperties
<1>6. Len(t) = Len(s) - 1 /\ DOMAIN t = 1..(Len(s) - 1)
  BY <1>1, <1>2, <1>3, <1>5, LenProperties
<1>7. ASSUME NEW k \in DOMAIN t PROVE t[k] = IF k < i THEN s[k] ELSE s[k + 1]
  <2>1. k \in Int /\ 1 <= k /\ k <= Len(s) - 1
    BY <1>1, <1>6
  <2>2. t[k] = IF k <= i - 1 THEN a[k] ELSE b[k - (i - 1)]
    BY <1>1, <1>2, <1>3, <1>5, <2>1
  <2>3. CASE k < i
    BY <1>1, <1>2, <2>1, <2>2, <2>3
  <2>4. CASE ~(k < i)
    <3>1. k - (i - 1) \in 1..(Len(s) - i) /\ (k - (i - 1)) + i = k + 1
      BY <1>1, <2>1, <2>4
    <3> QED BY <1>1, <1>3, <2>1, <2>2, <2>4, <3>1
  <2> QED BY <2>3, <2>4
<1> QED BY <1>1, <1>5, <1>6, <1>7

(* Taken off the list is what was at the place, and nothing else.           *)
LEMMA IdsRemoved ==
  ASSUME NEW S, NEW s \in Seq(S), NEW i \in DOMAIN s, NEW t, t = RemoveAt(s, i), OnceOn(s)
  PROVE  /\ IdsOn(t) = IdsOn(s) \ {s[i].id} /\ OnceOn(t)
         /\ ToSet(t) \subseteq ToSet(s)
         /\ \A a \in ToSet(s) : a \in ToSet(t) \/ a = s[i]
<1>1. /\ Len(s) \in Nat /\ DOMAIN s = 1..Len(s) /\ DOMAIN t = 1..(Len(s) - 1)
      /\ \A k \in DOMAIN t : t[k] = IF k < i THEN s[k] ELSE s[k + 1]
  BY Removed
<1> DEFINE from(k) == IF k < i THEN k ELSE k + 1
<1>2. \A k \in DOMAIN t : from(k) \in DOMAIN s /\ from(k) # i /\ t[k] = s[from(k)]
  BY <1>1
<1>3. \A k, l \in DOMAIN t : from(k) = from(l) => k = l
  BY <1>1
<1>4. \A m \in DOMAIN s : m # i => \E k \in DOMAIN t : from(k) = m
  <2> TAKE m \in DOMAIN s
  <2>1. CASE m < i
    BY <1>1, <2>1
  <2>2. CASE m > i
    <3>1. m - 1 \in DOMAIN t /\ from(m - 1) = m
      BY <1>1, <2>2
    <3> QED BY <3>1
  <2> QED BY <1>1, <2>1, <2>2
<1> HIDE DEF from
<1>5. ToSet(t) \subseteq ToSet(s) /\ \A a \in ToSet(s) : a \in ToSet(t) \/ a = s[i]
  BY <1>2, <1>4 DEF ToSet
<1>6. \A k \in DOMAIN t : t[k].id # s[i].id
  BY <1>2 DEF OnceOn
<1>7. IdsOn(t) = IdsOn(s) \ {s[i].id}
  <2>1. \A a \in ToSet(t) : a \in ToSet(s) /\ a.id # s[i].id
    BY <1>5, <1>6 DEF ToSet
  <2>2. \A a \in ToSet(s) : a.id = s[i].id \/ a \in ToSet(t)
    BY <1>5
  <2> QED BY <2>1, <2>2 DEF IdsOn
<1>8. OnceOn(t)
  BY <1>2, <1>3 DEF OnceOn
<1> QED BY <1>5, <1>7, <1>8

(* The entries of a log that record an action                               *)
LoggedIn(log, action) == {i \in DOMAIN log : log[i].action = action}

(* How many entries record an action after one more has been recorded ...   *)
LEMMA LogGrows ==
  ASSUME NEW S, NEW log \in Seq(S), NEW e \in S, NEW action, NEW t, t = Append(log, e)
  PROVE  /\ Cardinality(LoggedIn(log, action)) \in Nat
         /\ Cardinality(LoggedIn(t, action)) =
              Cardinality(LoggedIn(log, action)) + (IF e.action = action THEN 1 ELSE 0)
<1> DEFINE before == LoggedIn(log, action)
           after  == LoggedIn(t, action)
<1>1. /\ Len(log) \in Nat /\ DOMAIN log = 1..Len(log) /\ DOMAIN t = 1..(Len(log) + 1)
      /\ t[Len(log) + 1] = e /\ \A i \in DOMAIN log : t[i] = log[i]
  BY Appended
<1>2. before \in SUBSET DOMAIN log /\ after \in SUBSET DOMAIN t
  BY DEF LoggedIn
<1>3. \A i \in DOMAIN log : i \in after <=> i \in before
  BY <1>1 DEF LoggedIn
<1>4. Len(log) + 1 \in after <=> e.action = action
  BY <1>1 DEF LoggedIn
<1> HIDE DEF before, after
<1>5. /\ Cardinality(before) \in Nat
      /\ Cardinality(after) = Cardinality(before) + (IF Len(log) + 1 \in after THEN 1 ELSE 0)
  BY <1>2, <1>3, CountedAppended
<1> QED BY <1>4, <1>5 DEF before, after

(* ... and how many approvals have a status after one more is on the list.  *)
LEMMA CountGrows ==
  ASSUME NEW S, NEW list \in Seq(S), NEW a \in S, NEW status
  PROVE  /\ CountOf(list, status) \in Nat
         /\ CountOf(Append(list, a), status) =
              CountOf(list, status) + (IF a.status = status THEN 1 ELSE 0)
<1> DEFINE t      == Append(list, a)
           before == {i \in DOMAIN list : list[i].status = status}
           after  == {i \in DOMAIN t : t[i].status = status}
<1>1. /\ Len(list) \in Nat /\ DOMAIN list = 1..Len(list) /\ DOMAIN t = 1..(Len(list) + 1)
      /\ t[Len(list) + 1] = a /\ \A i \in DOMAIN list : t[i] = list[i]
  BY Appended
<1> HIDE DEF t
<1>2. before \in SUBSET DOMAIN list /\ after \in SUBSET DOMAIN t
  OBVIOUS
<1>3. \A i \in DOMAIN list : i \in after <=> i \in before
  BY <1>1
<1>4. Len(list) + 1 \in after <=> a.status = status
  BY <1>1
<1>5. CountOf(list, status) = Cardinality(before) /\ CountOf(t, status) = Cardinality(after)
  BY DEF CountOf
<1> HIDE DEF before, after
<1>6. /\ Cardinality(before) \in Nat
      /\ Cardinality(after) = Cardinality(before) + (IF Len(list) + 1 \in after THEN 1 ELSE 0)
  <2>1. t = Append(list, a)
    BY DEF t
  <2> QED BY <1>2, <1>3, <2>1, CountedAppended
<1>7. /\ CountOf(list, status) \in Nat
      /\ CountOf(t, status) = CountOf(list, status) + (IF a.status = status THEN 1 ELSE 0)
  BY <1>4, <1>5, <1>6
<1> QED BY <1>7 DEF t

(***************************************************************************)
(* The inductive invariant                                                 *)
(***************************************************************************)

Open == [id : ApprovalIds, wf : DeskWorkflows, status : {"open"}, decidedBy : {None},
         requestedAt : Nat, decidedAt : {None}]
Closed == [id : ApprovalIds, wf : DeskWorkflows, status : Decision,
           decidedBy : {Some(by) : by \in Deciders}, requestedAt : Nat,
           decidedAt : {Some(t) : t \in Nat}]
Entries == [action : {"approval_requested", "approval_granted", "approval_rejected"},
            actor : Deciders \cup {"system"}, wf : {Some(w) : w \in DeskWorkflows}, at : Nat]

DeskTypeOK ==
  deskNow \in Nat /\ pending \in Seq(Open) /\ decided \in Seq(Closed) /\ osLog \in Seq(Entries)

(* DecisionsAgree, of any two lists and a log *)
Tallies(p, d, log) ==
  /\ Len(p) + Len(d) = Cardinality(LoggedIn(log, "approval_requested"))
  /\ CountOf(d, "approved") = Cardinality(LoggedIn(log, "approval_granted"))
  /\ CountOf(d, "rejected") = Cardinality(LoggedIn(log, "approval_rejected"))
  /\ Len(log) = Len(p) + Len(d) + CountOf(d, "approved") + CountOf(d, "rejected")
RecordedIn(a, log) == \E e \in ToSet(log) :
  /\ e.action = ActionOf(a.status) /\ e.wf = Some(a.wf)
  /\ Some(e.actor) = a.decidedBy /\ Some(e.at) = a.decidedAt
EachOnce(p, d) ==
  /\ OnceOn(p) /\ IdsOn(p) \cap IdsOn(d) = {}
  /\ IsFiniteSet(IdsOn(p) \cup IdsOn(d))
  /\ Len(p) + Len(d) = Cardinality(IdsOn(p) \cup IdsOn(d))

DeskInv ==
  /\ DeskTypeOK
  /\ EachOnce(pending, decided)
  /\ Tallies(pending, decided, osLog)
  /\ \A a \in ToSet(decided) : RecordedIn(a, osLog)

LEMMA DeskInvSuffices == DeskInv => DecisionsAgree
<1> SUFFICES ASSUME DeskInv PROVE DecisionsAgree
  OBVIOUS
<1>1. /\ Stats.requested = Len(pending) + Len(decided)
      /\ Stats.approved = CountOf(decided, "approved") /\ Stats.rejected = CountOf(decided, "rejected")
      /\ Stats.entries = Len(osLog)
  BY DEF Stats
<1>2. ASSUME NEW a \in ToSet(decided) PROVE ~IsPending(a.id)
  BY DEF DeskInv, EachOnce, IsPending, IdsOn
<1> QED
  BY <1>1, <1>2 DEF DecisionsAgree, DeskInv, EachOnce, Tallies, RecordedIn, LoggedIn

LEMMA DeskInitially == DeskInit => DeskInv
<1> SUFFICES ASSUME DeskInit PROVE DeskInv
  OBVIOUS
<1>1. /\ pending = <<>> /\ decided = <<>> /\ osLog = <<>> /\ deskNow = 0
  BY DEF DeskInit
<1>2. ToSet(<<>>) = {} /\ DOMAIN <<>> = {} /\ Len(<<>>) = 0
  BY DEF ToSet
<1>3. IdsOn(<<>>) = {} /\ OnceOn(<<>>) /\ \A x : LoggedIn(<<>>, x) = {} /\ CountOf(<<>>, x) = 0
  <2>1. \A x : {i \in DOMAIN <<>> : <<>>[i].status = x} = {} /\ LoggedIn(<<>>, x) = {}
    BY <1>2 DEF LoggedIn
  <2> QED BY <1>2, <2>1, FS_EmptySet DEF IdsOn, OnceOn, CountOf
<1>4. EachOnce(pending, decided)
  BY <1>1, <1>2, <1>3, FS_EmptySet DEF EachOnce
<1>5. Tallies(pending, decided, osLog)
  <2>1. Tallies(<<>>, <<>>, <<>>)
    <3>1. Cardinality({}) = 0
      BY FS_EmptySet
    <3>2. \A x : Cardinality(LoggedIn(<<>>, x)) = 0
      BY <1>3, <3>1
    <3>3. \A x : CountOf(<<>>, x) = 0
      BY <1>3
    <3> QED BY <1>2, <3>2, <3>3 DEF Tallies
  <2> QED BY <1>1, <2>1
<1>6. DeskTypeOK
  BY <1>1 DEF DeskTypeOK
<1> QED BY <1>1, <1>2, <1>4, <1>5, <1>6 DEF DeskInv

(***************************************************************************)
(* The steps                                                               *)
(***************************************************************************)

(* What is recorded stays recorded.                                         *)
LEMMA RecordedForGood ==
  ASSUME NEW log \in Seq(Entries), NEW e \in Entries, NEW a, RecordedIn(a, log)
  PROVE  RecordedIn(a, Append(log, e))
<1>1. ToSet(Append(log, e)) = ToSet(log) \cup {e}
  BY SetAppended
<1> QED BY <1>1 DEF RecordedIn

LEMMA RequestStep ==
  ASSUME DeskInv, NEW id \in ApprovalIds, NEW w \in DeskWorkflows, DeskRequest(id, w)
  PROVE  DeskInv'
<1> DEFINE a == NewApproval(id, w, deskNow)
           e == ApprovalEntry("approval_requested", "system", w, deskNow)
<1>1. /\ pending \in Seq(Open) /\ decided \in Seq(Closed) /\ osLog \in Seq(Entries) /\ deskNow \in Nat
  BY DEF DeskInv, DeskTypeOK
<1>2. a \in Open /\ a.id = id
  BY <1>1 DEF Open, NewApproval
<1>3. e \in Entries /\ e.action = "approval_requested"
  BY <1>1 DEF Entries, ApprovalEntry, AuditEntry
<1>4. /\ id \notin IdsOn(pending) /\ id \notin IdsOn(decided)
      /\ pending' = Append(pending, a) /\ osLog' = Append(osLog, e)
      /\ decided' = decided /\ deskNow' = deskNow
  BY DEF DeskRequest, Record
<1> HIDE DEF a, e
<1>5. pending' \in Seq(Open) /\ Len(pending') = Len(pending) + 1 /\ Len(pending) \in Nat
  BY <1>1, <1>2, <1>4, Appended
<1>6. osLog' \in Seq(Entries) /\ Len(osLog') = Len(osLog) + 1 /\ Len(osLog) \in Nat
  BY <1>1, <1>3, <1>4, Appended
<1>7. DeskTypeOK'
  BY <1>1, <1>4, <1>5, <1>6 DEF DeskTypeOK
<1>8. EachOnce(pending, decided)'
  <2>1. IdsOn(pending') = IdsOn(pending) \cup {id} /\ OnceOn(pending')
    BY <1>1, <1>2, <1>4, IdsAppended DEF DeskInv, EachOnce
  <2> DEFINE ids == IdsOn(pending) \cup IdsOn(decided)
  <2>2. IsFiniteSet(ids) /\ Len(pending) + Len(decided) = Cardinality(ids) /\ id \notin ids
    BY <1>4 DEF DeskInv, EachOnce
  <2>3. (IdsOn(pending) \cup IdsOn(decided))' = ids \cup {id}
    BY <1>4, <2>1
  <2> HIDE DEF ids
  <2>4. IsFiniteSet(ids \cup {id}) /\ Cardinality(ids \cup {id}) = Cardinality(ids) + 1
    BY <2>2, FS_AddElement
  <2>5. Len(decided) \in Nat
    BY <1>1, LenProperties
  <2>6. (Len(pending) + Len(decided))' = Cardinality(ids \cup {id})
    BY <1>4, <1>5, <2>2, <2>4, <2>5
  <2>7. (IdsOn(pending) \cap IdsOn(decided) = {})'
    BY <1>4, <2>1 DEF DeskInv, EachOnce
  <2> QED BY <2>1, <2>3, <2>4, <2>6, <2>7 DEF EachOnce
<1>9. Tallies(pending, decided, osLog)'
  <2>1. \A x : /\ Cardinality(LoggedIn(osLog, x)) \in Nat
               /\ Cardinality(LoggedIn(osLog', x)) =
                    Cardinality(LoggedIn(osLog, x)) + (IF e.action = x THEN 1 ELSE 0)
    BY <1>1, <1>3, <1>4, LogGrows
  <2>2. Len(decided) \in Nat
    BY <1>1, LenProperties
  <2>3. Tallies(pending, decided, osLog)
    BY DEF DeskInv
  <2>4. CountOf(decided, "approved") \in Nat /\ CountOf(decided, "rejected") \in Nat
    BY <2>1, <2>3 DEF Tallies
  <2>5. /\ Cardinality(LoggedIn(osLog', "approval_requested")) = Cardinality(LoggedIn(osLog, "approval_requested")) + 1
        /\ Cardinality(LoggedIn(osLog', "approval_granted")) = Cardinality(LoggedIn(osLog, "approval_granted"))
        /\ Cardinality(LoggedIn(osLog', "approval_rejected")) = Cardinality(LoggedIn(osLog, "approval_rejected"))
    BY <1>3, <2>1
  <2> QED BY <1>4, <1>5, <1>6, <2>2, <2>3, <2>4, <2>5 DEF Tallies
<1>10. (\A x \in ToSet(decided) : RecordedIn(x, osLog))'
  BY <1>1, <1>3, <1>4, RecordedForGood DEF DeskInv
<1> QED BY <1>7, <1>8, <1>9, <1>10 DEF DeskInv

LEMMA DecideStep ==
  ASSUME DeskInv, NEW id \in ApprovalIds, NEW verdict \in Decision, NEW by \in Deciders,
         DeskDecide(id, verdict, by)
  PROVE  DeskInv'
<1>1. /\ pending \in Seq(Open) /\ decided \in Seq(Closed) /\ osLog \in Seq(Entries) /\ deskNow \in Nat
  BY DEF DeskInv, DeskTypeOK
<1>2. PICK i \in DOMAIN pending :
        /\ pending[i].id = id /\ pending' = RemoveAt(pending, i)
        /\ decided' = Append(decided, DecidedAs(pending[i], verdict, by))
        /\ osLog' = Append(osLog, ApprovalEntry(ActionOf(verdict), by, pending[i].wf, deskNow))
        /\ deskNow' = deskNow
  BY DEF DeskDecide, Taken, Record
<1> DEFINE a == DecidedAs(pending[i], verdict, by)
           e == ApprovalEntry(ActionOf(verdict), by, pending[i].wf, deskNow)
<1>3. pending[i] \in Open
  BY <1>1, ElementOfSeq, LenProperties
<1>4. /\ a \in Closed /\ a.id = id /\ a.status = verdict /\ a.wf = pending[i].wf
      /\ a.decidedBy = Some(by) /\ a.decidedAt = Some(deskNow)
  BY <1>1, <1>2, <1>3 DEF Open, Closed, DecidedAs
<1>5. /\ e \in Entries /\ e.action = ActionOf(verdict) /\ e.wf = Some(pending[i].wf)
      /\ e.actor = by /\ e.at = deskNow
  BY <1>1, <1>3 DEF Open, Entries, ApprovalEntry, AuditEntry, ActionOf, Decision
<1>6. decided' = Append(decided, a) /\ osLog' = Append(osLog, e)
  BY <1>2
<1> HIDE DEF a, e
<1>7. pending' \in Seq(Open) /\ Len(pending') = Len(pending) - 1 /\ Len(pending) \in Nat
  BY <1>1, <1>2, Removed
<1>8. decided' \in Seq(Closed) /\ Len(decided') = Len(decided) + 1 /\ Len(decided) \in Nat
  BY <1>1, <1>4, <1>6, Appended
<1>9. osLog' \in Seq(Entries) /\ Len(osLog') = Len(osLog) + 1 /\ Len(osLog) \in Nat
  BY <1>1, <1>5, <1>6, Appended
<1>10. DeskTypeOK'
  BY <1>1, <1>2, <1>7, <1>8, <1>9 DEF DeskTypeOK
<1>11. EachOnce(pending, decided)'
  <2>1. OnceOn(pending)
    BY DEF DeskInv, EachOnce
  <2>2. IdsOn(pending') = IdsOn(pending) \ {id} /\ OnceOn(pending')
    BY <1>1, <1>2, <2>1, IdsRemoved
  <2>3. IdsOn(decided') = IdsOn(decided) \cup {id}
    BY <1>1, <1>4, <1>6, IdsAppended
  <2>4. id \in IdsOn(pending)
    BY <1>2 DEF IdsOn, ToSet
  <2>5. (IdsOn(pending) \cup IdsOn(decided))' = IdsOn(pending) \cup IdsOn(decided)
    BY <2>2, <2>3, <2>4
  <2>6. (IdsOn(pending) \cap IdsOn(decided))' = {}
    BY <2>2, <2>3 DEF DeskInv, EachOnce
  <2>7. (Len(pending) + Len(decided))' = Len(pending) + Len(decided)
    BY <1>7, <1>8
  <2> QED BY <2>2, <2>5, <2>6, <2>7 DEF DeskInv, EachOnce
<1>12. Tallies(pending, decided, osLog)'
  <2>1. \A x : /\ Cardinality(LoggedIn(osLog, x)) \in Nat
               /\ Cardinality(LoggedIn(osLog', x)) =
                    Cardinality(LoggedIn(osLog, x)) + (IF e.action = x THEN 1 ELSE 0)
    BY <1>1, <1>5, <1>6, LogGrows
  <2>2. \A x : /\ CountOf(decided, x) \in Nat
               /\ CountOf(decided', x) = CountOf(decided, x) + (IF a.status = x THEN 1 ELSE 0)
    <3> TAKE x
    <3>1. CountOf(decided, x) \in Nat
      BY <1>1, <1>4, CountGrows
    <3>2. CountOf(decided', x) = CountOf(decided, x) + (IF a.status = x THEN 1 ELSE 0)
      BY <1>1, <1>4, <1>6, CountGrows
    <3> QED BY <3>1, <3>2
  <2>3. Tallies(pending, decided, osLog)
    BY DEF DeskInv
  <2>4. CASE verdict = "approved"
    <3>1. e.action = "approval_granted" /\ a.status = "approved"
      BY <1>4, <1>5, <2>4 DEF ActionOf
    <3>2. /\ Cardinality(LoggedIn(osLog', "approval_requested")) = Cardinality(LoggedIn(osLog, "approval_requested"))
          /\ Cardinality(LoggedIn(osLog', "approval_granted")) = Cardinality(LoggedIn(osLog, "approval_granted")) + 1
          /\ Cardinality(LoggedIn(osLog', "approval_rejected")) = Cardinality(LoggedIn(osLog, "approval_rejected"))
      BY <2>1, <3>1
    <3>3. /\ CountOf(decided', "approved") = CountOf(decided, "approved") + 1
          /\ CountOf(decided', "rejected") = CountOf(decided, "rejected")
          /\ CountOf(decided, "approved") \in Nat /\ CountOf(decided, "rejected") \in Nat
      BY <2>2, <3>1
    <3> QED BY <1>7, <1>8, <1>9, <2>3, <3>2, <3>3 DEF Tallies
  <2>5. CASE verdict = "rejected"
    <3>1. e.action = "approval_rejected" /\ a.status = "rejected"
      BY <1>4, <1>5, <2>5 DEF ActionOf
    <3>2. /\ Cardinality(LoggedIn(osLog', "approval_requested")) = Cardinality(LoggedIn(osLog, "approval_requested"))
          /\ Cardinality(LoggedIn(osLog', "approval_rejected")) = Cardinality(LoggedIn(osLog, "approval_rejected")) + 1
          /\ Cardinality(LoggedIn(osLog', "approval_granted")) = Cardinality(LoggedIn(osLog, "approval_granted"))
      BY <2>1, <3>1
    <3>3. /\ CountOf(decided', "rejected") = CountOf(decided, "rejected") + 1
          /\ CountOf(decided', "approved") = CountOf(decided, "approved")
          /\ CountOf(decided, "approved") \in Nat /\ CountOf(decided, "rejected") \in Nat
      BY <2>2, <3>1
    <3> QED BY <1>7, <1>8, <1>9, <2>3, <3>2, <3>3 DEF Tallies
  <2> QED BY <2>4, <2>5 DEF Decision
<1>13. (\A x \in ToSet(decided) : RecordedIn(x, osLog))'
  <2>1. ToSet(decided') = ToSet(decided) \cup {a}
    BY <1>1, <1>4, <1>6, SetAppended
  <2>2. ASSUME NEW x \in ToSet(decided) PROVE RecordedIn(x, osLog')
    BY <1>1, <1>5, <1>6, RecordedForGood DEF DeskInv
  <2>3. RecordedIn(a, osLog')
    <3>1. e \in ToSet(osLog')
      BY <1>1, <1>5, <1>6, SetAppended
    <3> QED BY <1>4, <1>5, <3>1 DEF RecordedIn
  <2> QED BY <2>1, <2>2, <2>3
<1> QED BY <1>10, <1>11, <1>12, <1>13 DEF DeskInv

LEMMA DeskStep == DeskInv /\ [DeskNext]_deskVars => DeskInv'
<1> SUFFICES ASSUME DeskInv, [DeskNext]_deskVars PROVE DeskInv'
  OBVIOUS
<1>1. CASE \E id \in ApprovalIds, w \in DeskWorkflows : DeskRequest(id, w)
  BY <1>1, RequestStep
<1>2. CASE \E id \in ApprovalIds, verdict \in Decision, by \in Deciders : DeskDecide(id, verdict, by)
  BY <1>2, DecideStep
<1>3. CASE \/ \E w \in DeskWorkflows : CoreRecords(w)
           \/ DeskTick \/ UNCHANGED deskVars
  <2>1. /\ pending' = pending /\ decided' = decided /\ osLog' = osLog
        /\ deskNow' = deskNow \/ deskNow' = deskNow + 1
    BY <1>3 DEF CoreRecords, DeskTick, deskVars
  <2>2. DeskTypeOK'
    BY <2>1 DEF DeskInv, DeskTypeOK
  <2> QED BY <2>1, <2>2 DEF DeskInv
<1> QED BY <1>1, <1>2, <1>3 DEF DeskNext

LEMMA DeskInvariant == DeskSpec => []DeskInv
BY DeskInitially, DeskStep, PTL DEF DeskSpec

(***************************************************************************)
(* The theorems                                                            *)
(***************************************************************************)

(* Whatever is requested and decided, and in whatever order, the list of    *)
(* open approvals, that of decided ones, the statistics and the façade's    *)
(* log (pipeline.rs, approval.rs) agree.                                    *)
THEOREM ListsAndLogAgree == DeskSpec => []DecisionsAgree
BY DeskInvariant, DeskInvSuffices, PTL

(* An approval that timeout_check reports is reported until it is decided   *)
(* itself.                                                                  *)
THEOREM OverdueStaysReported == DeskSpec => OverdueUntilDecided
<1> DEFINE Reported == \A id \in Overdue : id \in Overdue' \/ id \in IdsOn(decided')
<1>1. ASSUME DeskInv, [DeskNext]_deskVars PROVE [Reported]_deskVars
  <2> SUFFICES ASSUME NEW p \in ToSet(pending), deskNow - p.requestedAt > OverdueAfter
               PROVE  p.id \in Overdue' \/ p.id \in IdsOn(decided')
    BY DEF Overdue
  <2>1. pending \in Seq(Open) /\ decided \in Seq(Closed) /\ deskNow \in Nat
    BY <1>1 DEF DeskInv, DeskTypeOK
  <2>2. p \in Open /\ p.requestedAt \in Nat
    <3>1. \A i \in DOMAIN pending : pending[i] \in Open
      BY <2>1, ElementOfSeq, LenProperties
    <3>2. p \in Open
      BY <3>1 DEF ToSet
    <3> QED BY <3>2 DEF Open
  <2>3. ASSUME p \in ToSet(pending'), deskNow' \in Nat, deskNow' >= deskNow
        PROVE  p.id \in Overdue'
    BY <2>1, <2>2, <2>3, DeskOK DEF Overdue
  <2>4. ASSUME NEW id \in ApprovalIds, NEW w \in DeskWorkflows, DeskRequest(id, w)
        PROVE  p \in ToSet(pending') /\ deskNow' = deskNow
    <3>1. NewApproval(id, w, deskNow) \in Open
      BY <2>1 DEF Open, NewApproval
    <3> QED BY <2>1, <2>4, <3>1, SetAppended DEF DeskRequest
  <2>5. ASSUME NEW id \in ApprovalIds, NEW verdict \in Decision, NEW by \in Deciders,
               DeskDecide(id, verdict, by)
        PROVE  (p \in ToSet(pending') \/ p.id \in IdsOn(decided')) /\ deskNow' = deskNow
    <3>1. PICK i \in DOMAIN pending :
            /\ pending' = RemoveAt(pending, i)
            /\ decided' = Append(decided, DecidedAs(pending[i], verdict, by))
            /\ deskNow' = deskNow
      BY <2>5 DEF DeskDecide, Taken
    <3>2. pending[i] \in Open
      BY <2>1, ElementOfSeq, LenProperties
    <3>3. /\ DecidedAs(pending[i], verdict, by) \in Closed
          /\ DecidedAs(pending[i], verdict, by).id = pending[i].id
      BY <2>1, <3>2 DEF Open, Closed, DecidedAs
    <3>4. pending[i].id \in IdsOn(decided')
      <4>1. IdsOn(decided') = IdsOn(decided) \cup {DecidedAs(pending[i], verdict, by).id}
        BY <2>1, <3>1, <3>3, IdsAppended
      <4> QED BY <3>3, <4>1
    <3>5. p \in ToSet(pending') \/ p = pending[i]
      BY <1>1, <2>1, <3>1, IdsRemoved DEF DeskInv, EachOnce
    <3> QED BY <3>1, <3>4, <3>5
  <2>6. CASE \/ \E w \in DeskWorkflows : CoreRecords(w)
             \/ DeskTick \/ UNCHANGED deskVars
    <3>1. pending' = pending /\ (deskNow' = deskNow \/ deskNow' = deskNow + 1)
      BY <2>6 DEF CoreRecords, DeskTick, deskVars
    <3> QED BY <2>1, <2>3, <3>1
  <2> QED BY <1>1, <2>1, <2>3, <2>4, <2>5, <2>6 DEF DeskNext
<1> QED BY <1>1, DeskInvariant, PTL DEF DeskSpec, OverdueUntilDecided

(***************************************************************************)
(* What a query shows of a log                                             *)
(***************************************************************************)

(* Induction for the set of the numbers a formula holds of.                 *)
LEMMA SetInduction ==
  ASSUME NEW S, 0 \in S, \A n \in Nat : n \in S => n + 1 \in S
  PROVE  Nat \subseteq S
<1> SUFFICES ASSUME Nat \ S # {} PROVE FALSE
  OBVIOUS
<1> DEFINE R == OpToRel(<, Nat)
<1>1. IsWellFoundedOn(R, Nat)
  BY Zenon, NatLessThanWellFounded
<1>2. \A i, j \in Nat : i < j => <<i, j>> \in R
  BY DEF OpToRel
<1> HIDE DEF R
<1>3. PICK n \in Nat \ S : \A m \in Nat \ S : ~ (<<m, n>> \in R)
  BY <1>1, WFMin
<1>4. n # 0 /\ n - 1 \in Nat /\ n - 1 < n /\ n - 1 + 1 = n
  BY <1>3
<1>5. n - 1 \in S
  BY <1>2, <1>3, <1>4
<1> QED BY <1>3, <1>4, <1>5

UpTo(hits, i) == {j \in hits : j <= i}

LEMMA UpToFinite ==
  ASSUME NEW m \in Nat, NEW hits \in SUBSET (1..m), NEW i
  PROVE  IsFiniteSet(UpTo(hits, i)) /\ Cardinality(UpTo(hits, i)) \in Nat
<1>1. IsFiniteSet(1..m)
  BY FS_Interval
<1>2. UpTo(hits, i) \subseteq 1..m
  BY DEF UpTo
<1>3. IsFiniteSet(UpTo(hits, i))
  BY <1>1, <1>2, FS_Subset
<1> QED BY <1>3, FS_CardinalityType

LEMMA UpToGrows ==
  ASSUME NEW hits, \A j \in hits : j \in Nat /\ 1 <= j, NEW k \in Nat
  PROVE  /\ UpTo(hits, 0) = {} /\ k + 1 \notin UpTo(hits, k)
         /\ k + 1 \in hits => UpTo(hits, k + 1) = UpTo(hits, k) \cup {k + 1}
         /\ k + 1 \notin hits => UpTo(hits, k + 1) = UpTo(hits, k)
         /\ (\A j \in hits : j <= k) => UpTo(hits, k) = hits
<1>1. \A j \in hits : (j <= k + 1 <=> j <= k \/ j = k + 1) /\ ~ (j <= 0)
  OBVIOUS
<1>2. UpTo(hits, 0) = {} /\ k + 1 \notin UpTo(hits, k)
  BY <1>1 DEF UpTo
<1>3. ASSUME k + 1 \in hits PROVE UpTo(hits, k + 1) = UpTo(hits, k) \cup {k + 1}
  BY <1>1, <1>3 DEF UpTo
<1>4. ASSUME k + 1 \notin hits PROVE UpTo(hits, k + 1) = UpTo(hits, k)
  BY <1>1, <1>4 DEF UpTo
<1>5. ASSUME \A j \in hits : j <= k PROVE UpTo(hits, k) = hits
  BY <1>5 DEF UpTo
<1> QED BY <1>2, <1>3, <1>4, <1>5

(* As many hits as there are, as many have a place.                         *)
LEMMA NthExists ==
  ASSUME NEW m \in Nat, NEW hits \in SUBSET (1..m), NEW n \in 1..Cardinality(hits)
  PROVE  \E i \in hits : Cardinality(UpTo(hits, i)) = n
<1> DEFINE S == {k \in Nat : \A p \in Nat : 1 <= p /\ p <= Cardinality(UpTo(hits, k)) =>
                               \E i \in hits : Cardinality(UpTo(hits, i)) = p}
<1>0. \A j \in hits : j \in Nat /\ 1 <= j /\ j <= m
  OBVIOUS
<1>1. 0 \in S
  <2>1. UpTo(hits, 0) = {}
    BY <1>0, UpToGrows
  <2>2. Cardinality(UpTo(hits, 0)) = 0
    BY <2>1, FS_EmptySet
  <2> QED BY <2>2
<1>2. ASSUME NEW k \in Nat, k \in S PROVE k + 1 \in S
  <2> SUFFICES ASSUME NEW p \in Nat, 1 <= p, p <= Cardinality(UpTo(hits, k + 1))
               PROVE  \E i \in hits : Cardinality(UpTo(hits, i)) = p
    OBVIOUS
  <2>1. CASE k + 1 \in hits
    <3>1. UpTo(hits, k + 1) = UpTo(hits, k) \cup {k + 1} /\ k + 1 \notin UpTo(hits, k)
      BY <1>0, <2>1, UpToGrows
    <3>2. IsFiniteSet(UpTo(hits, k)) /\ Cardinality(UpTo(hits, k)) \in Nat
      BY UpToFinite
    <3>3. Cardinality(UpTo(hits, k + 1)) = Cardinality(UpTo(hits, k)) + 1
      BY <3>1, <3>2, FS_AddElement
    <3>4. p <= Cardinality(UpTo(hits, k)) \/ p = Cardinality(UpTo(hits, k + 1))
      BY <3>2, <3>3
    <3> QED BY <1>2, <2>1, <3>4
  <2>2. CASE k + 1 \notin hits
    <3>1. UpTo(hits, k + 1) = UpTo(hits, k)
      BY <1>0, <2>2, UpToGrows
    <3> QED BY <1>2, <3>1
  <2> QED BY <2>1, <2>2
<1> HIDE DEF S
<1>3. m \in S
  BY <1>1, <1>2, SetInduction
<1>4. UpTo(hits, m) = hits
  BY <1>0, UpToGrows
<1>5. n \in Nat /\ 1 <= n /\ n <= Cardinality(UpTo(hits, m))
  <2>1. Cardinality(hits) \in Nat
    BY <1>4, UpToFinite
  <2> QED BY <1>4, <2>1
<1> QED BY <1>3, <1>5 DEF S

LEMMA NthIs ==
  ASSUME NEW m \in Nat, NEW hits \in SUBSET (1..m), NEW n \in 1..Cardinality(hits)
  PROVE  Nth(hits, n) \in hits
<1>1. \E i \in hits : Cardinality({j \in hits : j <= i}) = n
  BY NthExists DEF UpTo
<1> QED BY <1>1 DEF Nth

(* A hit at the end of the log leaves the places of the others alone.       *)
LEMMA NthStays ==
  ASSUME NEW m \in Nat, NEW hits \in SUBSET (1..m), NEW more,
         more = hits \/ more = hits \cup {m + 1}
  PROVE  /\ Cardinality(hits) \in Nat /\ Cardinality(more) \in Nat
         /\ Cardinality(hits) <= Cardinality(more)
         /\ \A n \in 1..Cardinality(hits) : Nth(more, n) = Nth(hits, n)
<1>0. \A j \in hits : j \in Nat /\ 1 <= j /\ j <= m
  OBVIOUS
<1>1. IsFiniteSet(hits) /\ Cardinality(hits) \in Nat
  <2>1. UpTo(hits, m) = hits
    BY <1>0, UpToGrows
  <2> QED BY <2>1, UpToFinite
<1>2. CASE more = hits
  BY <1>1, <1>2
<1>3. CASE more = hits \cup {m + 1}
  <2>1. Cardinality(more) = Cardinality(hits) + 1
    <3>1. m + 1 \notin hits
      OBVIOUS
    <3> QED BY <1>1, <1>3, <3>1, FS_AddElement
  <2>2. ASSUME NEW n \in 1..Cardinality(hits) PROVE Nth(more, n) = Nth(hits, n)
    <3>1. \A i \in hits : {j \in more : j <= i} = {j \in hits : j <= i}
      <4> TAKE i \in hits
      <4>1. i \in Nat /\ i <= m /\ ~ (m + 1 <= i)
        BY <1>0
      <4> QED BY <1>3, <4>1
    <3>2. {j \in more : j <= m + 1} = more
      <4>1. \A j \in more : j <= m + 1
        BY <1>0, <1>3
      <4> QED BY <4>1
    <3>3. Cardinality({j \in more : j <= m + 1}) # n
      <4>1. Cardinality(more) # n
        BY <1>1, <2>1
      <4> QED BY <3>2, <4>1
    <3>4. \A i : i \in more <=> i \in hits \/ i = m + 1
      BY <1>3
    <3>5. \A i : i \in hits /\ Cardinality({j \in hits : j <= i}) = n
                <=> i \in more /\ Cardinality({j \in more : j <= i}) = n
      <4> TAKE i
      <4>1. CASE i \in hits
        BY <3>1, <3>4, <4>1
      <4>2. CASE i \notin hits
        BY <3>3, <3>4, <4>2
      <4> QED BY <4>1, <4>2
    <3>6. (CHOOSE i : i \in more /\ Cardinality({j \in more : j <= i}) = n)
            = (CHOOSE i : i \in hits /\ Cardinality({j \in hits : j <= i}) = n)
      BY <3>5
    <3> QED BY <3>6 DEF Nth
  <2> QED BY <1>1, <2>1, <2>2
<1> QED BY <1>2, <1>3

LEMMA TruncatedIs ==
  ASSUME NEW E, NEW s \in Seq(E), NEW limit \in Nat
  PROVE  /\ Truncated(s, limit) \in Seq(E) /\ Len(s) \in Nat
         /\ Len(Truncated(s, limit)) = (IF Len(s) <= limit THEN Len(s) ELSE limit)
         /\ \A i \in 1..Len(Truncated(s, limit)) : Truncated(s, limit)[i] = s[i]
<1>1. Len(s) \in Nat /\ \A i \in 1..Len(s) : s[i] \in E
  BY LenProperties, ElementOfSeq
<1>2. CASE Len(s) <= limit
  BY <1>1, <1>2 DEF Truncated
<1>3. CASE ~ (Len(s) <= limit)
  <2>1. Truncated(s, limit) = SubSeq(s, 1, limit)
    BY <1>3 DEF Truncated
  <2>2. \A i \in 1..limit : s[i] \in E
    BY <1>1, <1>3
  <2>3. /\ SubSeq(s, 1, limit) \in Seq(E)
        /\ Len(SubSeq(s, 1, limit)) = (IF 1 <= limit THEN limit - 1 + 1 ELSE 0)
        /\ \A i \in 1..(limit - 1 + 1) : SubSeq(s, 1, limit)[i] = s[1 + i - 1]
    BY <2>2, SubSeqProperties
  <2>4. limit - 1 + 1 = limit /\ (IF 1 <= limit THEN limit - 1 + 1 ELSE 0) = limit
        /\ \A i \in 1..limit : 1 + i - 1 = i
    OBVIOUS
  <2> QED BY <1>1, <1>3, <2>1, <2>3, <2>4
<1> QED BY <1>2, <1>3

LEMMA PrefixIs ==
  ASSUME NEW E, NEW s \in Seq(E), NEW t \in Seq(E), Len(s) <= Len(t),
         \A i \in 1..Len(s) : s[i] = t[i]
  PROVE  IsPrefix(s, t)
<1>1. Len(s) \in Nat /\ Len(t) \in Nat
      /\ \A i \in 1..Len(s) : s[i] \in E /\ t[i] \in E
  BY LenProperties, ElementOfSeq
<1> DEFINE n == Len(s)
           a == SubSeq(s, 1, n)
           b == SubSeq(t, 1, n)
<1>2. a \in Seq(E) /\ Len(a) = (IF 1 <= n THEN n - 1 + 1 ELSE 0)
      /\ \A i \in 1..(n - 1 + 1) : a[i] = s[1 + i - 1]
  BY <1>1, SubSeqProperties
<1>3. b \in Seq(E) /\ Len(b) = (IF 1 <= n THEN n - 1 + 1 ELSE 0)
      /\ \A i \in 1..(n - 1 + 1) : b[i] = t[1 + i - 1]
  BY <1>1, SubSeqProperties
<1>4. n - 1 + 1 = n /\ (IF 1 <= n THEN n - 1 + 1 ELSE 0) = n
      /\ \A i \in 1..n : 1 + i - 1 = i
  BY <1>1
<1> HIDE DEF a, b
<1>5. \A i \in 1..n : a[i] = b[i]
  BY <1>2, <1>3, <1>4
<1>6. a = b
  BY <1>2, <1>3, <1>4, <1>5, SeqEqual
<1> QED BY <1>6 DEF IsPrefix, a, b

(* What a query shows of a log it shows of the log with one entry more.     *)
LEMMA QueryShowsAgain ==
  ASSUME NEW E, NEW log \in Seq(E), NEW e \in E, NEW query, query.limit \in Nat
  PROVE  IsPrefix(QueryLog(log, query), QueryLog(Append(log, e), query))
<1> DEFINE longer == Append(log, e)
           m      == Len(log)
           hits   == Hits(log, query)
           more   == Hits(longer, query)
           limit  == query.limit
           s      == Filtered(log, query)
           t      == Filtered(longer, query)
<1>1. /\ m \in Nat /\ DOMAIN log = 1..m /\ DOMAIN longer = 1..(m + 1)
      /\ longer \in Seq(E) /\ \A i \in 1..m : log[i] \in E /\ longer[i] = log[i]
  <2>1. m \in Nat /\ DOMAIN log = 1..m /\ DOMAIN longer = 1..(m + 1)
        /\ longer \in Seq(E) /\ \A i \in DOMAIN log : longer[i] = log[i]
    BY Appended
  <2> QED BY <2>1, ElementOfSeq
<1> HIDE DEF longer
<1>2. hits \in SUBSET (1..m) /\ (more = hits \/ more = hits \cup {m + 1})
      /\ more \in SUBSET (1..(m + 1))
  <2>1. \A i : i \in more => i \in hits \/ i = m + 1
    BY <1>1 DEF Hits
  <2>2. \A i : i \in hits => i \in more /\ i \in 1..m
    BY <1>1 DEF Hits
  <2>3. \A i : i \in more => i \in 1..(m + 1)
    BY <1>1 DEF Hits
  <2> HIDE DEF hits, more
  <2> QED BY <2>1, <2>2, <2>3
<1>3. \A i \in 1..(m + 1) : longer[i] \in E
  BY <1>1, ElementOfSeq, LenProperties
<1> DEFINE k == Cardinality(hits)
           l == Cardinality(more)
<1>4. /\ k \in Nat /\ l \in Nat /\ k <= l
      /\ \A n \in 1..k : Nth(more, n) = Nth(hits, n)
  <2> HIDE DEF hits, more, m
  <2>1. m \in Nat /\ hits \in SUBSET (1..m) /\ (more = hits \/ more = hits \cup {m + 1})
    BY <1>1, <1>2
  <2> QED BY <2>1, NthStays
<1>5. \A n \in 1..k : Nth(hits, n) \in 1..m
  BY <1>1, <1>2, NthIs
<1>6. \A n \in 1..l : Nth(more, n) \in 1..(m + 1)
  <2>1. m + 1 \in Nat
    BY <1>1
  <2> QED BY <1>2, <2>1, NthIs
<1>7. s = [n \in 1..k |-> log[Nth(hits, n)]] /\ t = [n \in 1..l |-> longer[Nth(more, n)]]
  BY DEF Filtered
<1> HIDE DEF hits, more, k, l, s, t
<1>8. s \in Seq(E) /\ Len(s) = k /\ t \in Seq(E) /\ Len(t) = l
  BY <1>1, <1>3, <1>4, <1>5, <1>6, <1>7
<1>9. \A n \in 1..k : s[n] = t[n]
  BY <1>1, <1>4, <1>5, <1>7
<1> DEFINE a == Truncated(s, limit)
           b == Truncated(t, limit)
<1>10. /\ a \in Seq(E) /\ Len(a) = (IF k <= limit THEN k ELSE limit)
       /\ \A i \in 1..Len(a) : a[i] = s[i]
  BY <1>8, TruncatedIs
<1>11. /\ b \in Seq(E) /\ Len(b) = (IF l <= limit THEN l ELSE limit)
       /\ \A i \in 1..Len(b) : b[i] = t[i]
  BY <1>8, TruncatedIs
<1> HIDE DEF a, b, limit
<1>12. limit \in Nat
  BY DEF limit
<1>13. Len(a) <= Len(b) /\ \A i \in 1..Len(a) : i \in 1..k /\ i \in 1..Len(b)
  BY <1>4, <1>10, <1>11, <1>12
<1>14. \A i \in 1..Len(a) : a[i] = b[i]
  BY <1>9, <1>10, <1>11, <1>13
<1>15. IsPrefix(a, b)
  BY <1>10, <1>11, <1>13, <1>14, PrefixIs
<1> QED BY <1>15 DEF QueryLog, a, b, s, t, limit, longer

(* The entries of the orchestrator's log                                    *)
CoreRows == [action : {"workflow_started", "task_started", "escalation_resolved"},
             actor : {"system", "agent"}, wf : {None} \cup {Some(w) : w \in DeskWorkflows}, at : Nat]
CoreLogOK == coreLog \in Seq(CoreRows)

LEMMA CoreLogGrows ==
  ASSUME deskNow \in Nat, NEW w \in DeskWorkflows, CoreRecords(w)
  PROVE  \E e \in CoreRows : coreLog' = Append(coreLog, e)
<1>1. PICK e \in {WorkflowEntry("workflow_started", w, deskNow),
                  TaskEntry("task_started", "agent", w, deskNow),
                  EscalationEntry("escalation_resolved", Some(w), deskNow)} :
        coreLog' = Append(coreLog, e)
  BY DEF CoreRecords, Record
<1>2. e \in CoreRows
  BY <1>1 DEF CoreRows, WorkflowEntry, TaskEntry, EscalationEntry, AuditEntry
<1> QED BY <1>1, <1>2

LEMMA CoreLogKept == DeskSpec => []CoreLogOK
<1>1. DeskInit => CoreLogOK
  BY DEF DeskInit, CoreLogOK
<1>2. DeskInv /\ CoreLogOK /\ [DeskNext]_deskVars => CoreLogOK'
  <2> SUFFICES ASSUME DeskInv, CoreLogOK, [DeskNext]_deskVars PROVE CoreLogOK'
    OBVIOUS
  <2>1. ASSUME NEW w \in DeskWorkflows, CoreRecords(w) PROVE CoreLogOK'
    <3>1. PICK e \in CoreRows : coreLog' = Append(coreLog, e)
      BY <2>1, CoreLogGrows DEF DeskInv, DeskTypeOK
    <3> QED BY <3>1, AppendProperties DEF CoreLogOK
  <2>2. CASE coreLog' = coreLog
    BY <2>2 DEF CoreLogOK
  <2> QED BY <2>1, <2>2 DEF DeskNext, DeskRequest, DeskDecide, DeskTick, deskVars
<1> QED BY <1>1, <1>2, DeskInvariant, PTL DEF DeskSpec

(* What grows by at most an entry shows what it has shown.                  *)
LEMMA WorkflowShownAgain ==
  ASSUME NEW E, NEW log \in Seq(E), NEW longer, NEW w,
         longer = log \/ \E e \in E : longer = Append(log, e)
  PROVE  IsPrefix(EntriesForWorkflow(log, w), EntriesForWorkflow(longer, w))
<1> DEFINE query == [NewQuery EXCEPT !.wf = Some(w)]
<1>1. query.limit \in Nat
  BY QueryLimitOK DEF NewQuery
<1> HIDE DEF query
<1>2. ASSUME NEW e \in E, longer = Append(log, e)
      PROVE  IsPrefix(QueryLog(log, query), QueryLog(longer, query))
  BY <1>1, <1>2, QueryShowsAgain
<1>3. CASE longer = log
  BY <1>3 DEF IsPrefix
<1> QED BY <1>2, <1>3 DEF EntriesForWorkflow, query

(* entries_for_workflow of either log, for any limit and any number of      *)
(* entries: what it has shown it shows again, in the same places.           *)
THEOREM ReadersSeeTheSame == DeskSpec => ShownStaysShown
<1> DEFINE Step == \A w \in DeskWorkflows :
      /\ IsPrefix(EntriesForWorkflow(osLog, w), EntriesForWorkflow(osLog', w))
      /\ IsPrefix(EntriesForWorkflow(coreLog, w), EntriesForWorkflow(coreLog', w))
<1>1. DeskInv /\ CoreLogOK /\ [DeskNext]_deskVars => Step
  <2> SUFFICES ASSUME DeskInv, CoreLogOK, [DeskNext]_deskVars PROVE Step
    OBVIOUS
  <2>1. osLog \in Seq(Entries) /\ coreLog \in Seq(CoreRows) /\ deskNow \in Nat
        /\ pending \in Seq(Open)
    BY DEF DeskInv, DeskTypeOK, CoreLogOK
  <2>2. coreLog' = coreLog \/ \E e \in CoreRows : coreLog' = Append(coreLog, e)
    BY <2>1, CoreLogGrows DEF DeskNext, DeskRequest, DeskDecide, DeskTick, deskVars
  <2>3. ASSUME NEW id \in ApprovalIds, NEW w \in DeskWorkflows, DeskRequest(id, w)
        PROVE  \E e \in Entries : osLog' = Append(osLog, e)
    <3>1. ApprovalEntry("approval_requested", "system", w, deskNow) \in Entries
      BY <2>1 DEF Entries, ApprovalEntry, AuditEntry
    <3> QED BY <2>3, <3>1 DEF DeskRequest, Record
  <2>4. ASSUME NEW id \in ApprovalIds, NEW verdict \in Decision, NEW by \in Deciders,
               DeskDecide(id, verdict, by)
        PROVE  \E e \in Entries : osLog' = Append(osLog, e)
    <3>1. PICK i \in DOMAIN pending :
            osLog' = Append(osLog, ApprovalEntry(ActionOf(verdict), by, pending[i].wf, deskNow))
      BY <2>4 DEF DeskDecide, Record
    <3>2. pending[i] \in Open
      BY <2>1, ElementOfSeq, LenProperties
    <3>3. ApprovalEntry(ActionOf(verdict), by, pending[i].wf, deskNow) \in Entries
      BY <2>1, <3>2 DEF Open, Entries, ApprovalEntry, AuditEntry, ActionOf
    <3> QED BY <3>1, <3>3
  <2>5. osLog' = osLog \/ \E e \in Entries : osLog' = Append(osLog, e)
    BY <2>3, <2>4 DEF DeskNext, CoreRecords, DeskTick, deskVars
  <2> QED BY <2>1, <2>2, <2>5, WorkflowShownAgain
<1> QED BY <1>1, DeskInvariant, CoreLogKept, PTL DEF DeskSpec, ShownStaysShown
=============================================================================
