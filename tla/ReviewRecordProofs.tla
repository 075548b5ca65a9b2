------------------------- MODULE ReviewRecordProofs -------------------------
(* A publication is one step to whoever reads the tables, however it ends. *)
(* The argument: a review that has not begun left nothing behind, a base   *)
(* command and an extended one never come from one review, and the         *)
(* reconciliation that a publication starts with has emptied the desk, so  *)
(* that neither the commands it supersedes nor the ones a failure would    *)
(* bring back exist.                                                       *)
EXTENDS ReviewRecord, TLAPS

Commands == {"CLOSE_25", "EXIT"}

\* A review that has not begun left nothing behind.
Fresh == \A q \in Reviews : base[q] = "none" => ext[q] = "none" /\ q \notin verdicts \cup erased

\* A base command and an extended one are never of one review.
Kinds == \A q \in Reviews : /\ base[q] = "pending_execution" => policy[q] \in Commands
                            /\ ext[q] = "pending_execution" => policy[q] \in Extended

\* A running publication has found the desk empty, and its review is its own.
Alone ==
  /\ pub.stage = "idle" => pub = Idle
  /\ pub.stage # "idle" =>
       /\ server = "up"
       /\ pub.review \in Reviews /\ pub.review \notin verdicts \cup erased
       /\ pub.pendingBase = {} /\ pub.pendingExt = {}
       /\ base[pub.review] \in {"none", "pending_execution", "not_required"}
       /\ ext[pub.review] \in {"none", "pending_execution"}
       /\ pub.stage = "begun" <=> base[pub.review] = "none"
       /\ OnDesk = {}

One == \A q, r \in OnDesk : q = r

Asked == asking # NoReview => server = "up" /\ asking \notin replays

Kept == Fresh /\ Kinds /\ Alone /\ One /\ ActionableIsRecorded

Inv == Kept /\ Asked

\* What a step may do to the desk.
Published == [Desk!Next]_<<OnDesk, verdicts \cup erased>>

-----------------------------------------------------------------------------
(* Types.                                                                  *)

LEMMA InitTypes == Init => TypeOK
<1> SUFFICES ASSUME Init PROVE TypeOK
  OBVIOUS
<1>1. trade \in Row
  BY DEF Init, Found, Row, Bases
<1>2. 1 \in Reviews
  BY ReviewsAssumption DEF Reviews
<1>3. policy \in [Reviews -> Policies] /\ base \in [Reviews -> Statuses]
      /\ ext \in [Reviews -> Statuses]
  BY <1>2 DEF Init, Policies, Statuses
<1>4. pub \in [stage : Stages, review : Reviews \cup {NoReview},
               pendingBase : SUBSET Reviews, pendingExt : SUBSET Reviews]
  BY DEF Init, Idle, Stages
<1>5. edits \in 0..MaxEdits
  BY EditsAssumption DEF Init
<1>6. verdicts \subseteq Reviews
  BY <1>2 DEF Init
<1>7. /\ asking \in Reviews \cup {NoReview} /\ ending \in Endings
      /\ server \in {"starting", "repaired", "reconciled", "up"}
      /\ recoveryError \in BOOLEAN /\ unreplayed \in BOOLEAN
      /\ humans \subseteq Reviews /\ replays \subseteq Reviews
      /\ stranded \subseteq Reviews /\ erased \subseteq Reviews /\ skipped \subseteq Reviews
  BY DEF Init, Endings
<1> QED BY <1>1, <1>3, <1>4, <1>5, <1>6, <1>7 DEF TypeOK

Pubs == [stage : Stages, review : Reviews \cup {NoReview},
         pendingBase : SUBSET Reviews, pendingExt : SUBSET Reviews]

Tables == [Reviews -> Statuses]

LEMMA IdleType == Idle \in Pubs
BY DEF Idle, Pubs, Stages

LEMMA SettledType == ASSUME NEW row \in Row PROVE Settled(row) \in Row
BY DEF Settled, Row, Bases

LEMMA ExhaustType ==
  ASSUME NEW row \in Row, NEW manual \in BOOLEAN PROVE Exhaust(row, manual) \in Row
<1> DEFINE left == [row EXCEPT !.exhausted = TRUE, !.manualExit = @ \/ manual]
<1>1. (row.manualExit \/ manual) \in BOOLEAN
  OBVIOUS
<1>2. left \in Row
  BY <1>1 DEF Row
<1> QED BY <1>2, SettledType DEF Exhaust

LEMMA TableTypes ==
  ASSUME NEW table \in Tables, NEW r, NEW S
  PROVE  /\ Superseded(table, r) \in Tables /\ Withdrawn(table) \in Tables
         /\ Compensated(table, S) \in Tables
BY DEF Tables, Superseded, Withdrawn, Compensated, Statuses

LEMMA TypeStep == TypeOK /\ Alone /\ [Next]_vars => TypeOK'
<1> SUFFICES ASSUME TypeOK, Alone, [Next]_vars PROVE TypeOK'
  OBVIOUS
<1>a. /\ trade \in Row /\ base \in Tables /\ ext \in Tables /\ pub \in Pubs
      /\ policy \in [Reviews -> Policies]
  BY DEF TypeOK, Tables, Pubs
<1>b. /\ Pending(base) \in SUBSET Reviews /\ Pending(ext) \in SUBSET Reviews
  BY DEF Pending
<1>c. pub.stage # "idle" => pub.review \in Reviews
  BY DEF Alone
<1>1. CASE \E r \in Reviews, p \in Policies : Begin(r, p)
  <2> PICK r \in Reviews, p \in Policies : Begin(r, p)
    BY <1>1
  <2>1. pub' \in Pubs /\ policy' \in [Reviews -> Policies]
    BY <1>a, <1>b DEF Begin, Pubs, Stages
  <2> QED BY <2>1 DEF Begin, TypeOK, Pubs
<1>2. CASE RegisterDecision
  <2>1. pub' \in Pubs
    BY <1>2, <1>a DEF RegisterDecision, Pubs, Stages
  <2>2. Superseded(base, pub.review) \in Tables
    BY <1>a, TableTypes
  <2>3. base' \in Tables
    BY <1>2, <2>2 DEF RegisterDecision, Tables, Statuses
  <2> QED BY <1>2, <2>1, <2>3 DEF RegisterDecision, TypeOK, Pubs, Tables
<1>3. CASE RegisterShadowAction
  <2>1. pub' \in Pubs
    BY <1>3, <1>a DEF RegisterShadowAction, Pubs, Stages
  <2>2. Superseded(ext, pub.review) \in Tables
    BY <1>a, TableTypes
  <2>3. ext' \in Tables
    BY <1>3, <2>2 DEF RegisterShadowAction, Tables, Statuses
  <2> QED BY <1>3, <2>1, <2>3 DEF RegisterShadowAction, TypeOK, Pubs, Tables
<1>4. CASE SupersedeOthers
  <2>1. pub' \in Pubs
    BY <1>4, <1>a DEF SupersedeOthers, Pubs, Stages
  <2>2. base' \in Tables /\ ext' \in Tables
    BY <1>4, <1>a, TableTypes DEF SupersedeOthers
  <2> QED BY <1>4, <2>1, <2>2 DEF SupersedeOthers, TypeOK, Pubs, Tables
<1>5. CASE RecordVerdict
  BY <1>5, <1>c, IdleType DEF RecordVerdict, TypeOK, Pubs
<1>6. CASE PublicationFails
  <2>1. base' \in Tables /\ ext' \in Tables
    BY <1>6, <1>a, TableTypes DEF PublicationFails
  <2> QED BY <1>6, <2>1, IdleType DEF PublicationFails, TypeOK, Pubs, Tables
<1>7. CASE CompensationFails
  BY <1>7, <1>c, IdleType DEF CompensationFails, TypeOK, Pubs
<1>8. CASE \E r \in Reviews : ConfirmDecision(r) \/ ConfirmStop(r) \/ NotExecuted(r)
  <2> PICK r \in Reviews : ConfirmDecision(r) \/ ConfirmStop(r) \/ NotExecuted(r)
    BY <1>8
  <2>1. CASE ConfirmDecision(r)
    <3>1. trade' \in Row
      BY <2>1, <1>a, ExhaustType DEF ConfirmDecision
    <3>2. ending' \in Endings
      BY <2>1 DEF ConfirmDecision, Endings
    <3>3. base' \in Tables
      BY <2>1, <1>a DEF ConfirmDecision, Tables, Statuses
    <3> QED BY <2>1, <3>1, <3>2, <3>3 DEF ConfirmDecision, TypeOK, Tables
  <2>2. CASE ConfirmStop(r)
    <3>1. ext' \in Tables
      BY <2>2, <1>a DEF ConfirmStop, Tables, Statuses
    <3> QED BY <2>2, <3>1 DEF ConfirmStop, TypeOK, Tables
  <2>3. CASE NotExecuted(r)
    <3>1. base' \in Tables /\ ext' \in Tables
      BY <2>3, <1>a DEF NotExecuted, Tables, Statuses
    <3> QED BY <2>3, <3>1 DEF NotExecuted, TypeOK, Tables
  <2> QED BY <2>1, <2>2, <2>3
<1>9. CASE EditSupersede \/ Withdraw
  <2>1. base' \in Tables /\ ext' \in Tables
    BY <1>9, <1>a, TableTypes DEF EditSupersede, Withdraw
  <2>2. edits' \in 0..MaxEdits
    BY <1>9, EditsAssumption DEF EditSupersede, Withdraw, TypeOK
  <2> QED BY <1>9, <2>1, <2>2 DEF EditSupersede, Withdraw, TypeOK, Tables, Endings
<1>21. CASE EditLevels
  <2>1. edits' \in 0..MaxEdits
    BY <1>21, EditsAssumption DEF EditLevels, TypeOK
  <2> QED BY <1>21, <2>1 DEF EditLevels, TypeOK
<1>22. CASE EditKeeps
  <2>1. edits' \in 0..MaxEdits
    BY <1>22, EditsAssumption DEF EditKeeps, TypeOK
  <2> QED BY <1>22, <2>1, <1>b DEF EditKeeps, Orphans, TypeOK
<1>10. CASE \E total \in BOOLEAN : Exit(total)
  <2> PICK total \in BOOLEAN : Exit(total)
    BY <1>10
  <2>1. base' \in Tables /\ ext' \in Tables
    BY <1>a, TableTypes DEF Exit
  <2>2. Exhaust(trade, TRUE) \in Row
    BY <1>a, ExhaustType
  <2>3. [Exhaust(trade, TRUE) EXCEPT !.basis = "manual_total_override"] \in Row
    BY <2>2 DEF Row, Bases
  <2>4. trade' \in Row
    BY <1>a, <2>2, <2>3 DEF Exit
  <2> QED BY <2>1, <2>4 DEF Exit, TypeOK, Tables, Endings
<1>11. CASE Resolve \/ EndingFails
  BY <1>11 DEF Resolve, Replay, EndingFails, TypeOK, Endings
<1>20. CASE ManualFill
  <2>1. trade' \in Row
    BY <1>20, <1>a, ExhaustType DEF ManualFill
  <2> QED BY <1>20, <2>1 DEF ManualFill, TypeOK, Endings
<1>12. CASE EnterTotal
  <2>1. trade' \in Row
    BY <1>12, <1>a DEF EnterTotal, Row, Bases
  <2> QED BY <1>12, <2>1 DEF EnterTotal, TypeOK
<1>13. CASE Human
  BY <1>13 DEF Human, CheckHuman, InsertHuman, TypeOK
<1>14. CASE ReconcileClosures
  <2>1. trade' \in Row
    BY <1>14, <1>a, SettledType DEF ReconcileClosures
  <2>2. server' \in {"repaired", "reconciled"}
    BY <1>14 DEF ReconcileClosures
  <2> QED BY <1>14, <2>1, <2>2 DEF ReconcileClosures, TypeOK
<1>15. CASE ReplayRepaired
  BY <1>15 DEF ReplayRepaired, Replay, TypeOK
<1>16. CASE RecoverRemainder
  <2>1. base' \in Tables /\ ext' \in Tables
    BY <1>16, <1>a, TableTypes DEF RecoverRemainder
  <2>2. trade' \in Row
    BY <1>16, <1>a, ExhaustType DEF RecoverRemainder
  <2>3. recoveryError' \in BOOLEAN
    BY <1>16 DEF RecoverRemainder, TypeOK
  <2> QED BY <1>16, <2>1, <2>2, <2>3 DEF RecoverRemainder, TypeOK, Tables
<1>17. CASE Crash
  <2>1. stranded' \subseteq Reviews
    BY <1>17, <1>b, <1>c DEF Crash, Orphans, TypeOK
  <2>2. unreplayed' \in BOOLEAN
    BY <1>17 DEF Crash
  <2>3. edits' \in 0..MaxEdits
    BY <1>17, EditsAssumption DEF Crash
  <2> QED BY <1>17, <2>1, <2>2, <2>3, IdleType DEF Crash, TypeOK, Pubs, Endings
<1>18. CASE CrashAtStart
  <2>1. unreplayed' \in BOOLEAN
    BY <1>18 DEF CrashAtStart
  <2> QED BY <1>18, <2>1 DEF CrashAtStart, TypeOK
<1>19. CASE UNCHANGED vars
  BY <1>19 DEF vars, TypeOK
<1> QED BY <1>1, <1>2, <1>3, <1>4, <1>5, <1>6, <1>7, <1>8, <1>9, <1>10, <1>11, <1>12, <1>13,
       <1>14, <1>15, <1>16, <1>17, <1>18, <1>19, <1>20, <1>21, <1>22 DEF Next, Publication, Receipts, Start

-----------------------------------------------------------------------------
(* What the steps have in common.                                          *)

\* An edit that ends without withdrawing anything puts what it leaves on record.
LeavesOnRecord == edits > 0 => edits' > 0 \/ Orphans \subseteq stranded'

\* The tables and the publication are left alone; an edit may move verdicts to the erased.
LEMMA Quiet ==
  ASSUME Kept, UNCHANGED <<policy, base, ext, pub>>,
         verdicts' \cup erased' = verdicts \cup erased, erased \subseteq erased',
         verdicts' = verdicts \/ edits' > 0,
         stranded \subseteq stranded', LeavesOnRecord,
         pub.stage # "idle" => server' = server
  PROVE  Kept' /\ Published
<1>1. OnDesk' = OnDesk
  BY DEF OnDesk
<1>2. Fresh' /\ Kinds' /\ One'
  BY <1>1 DEF Kept, Fresh, Kinds, One
<1>3. Alone'
  BY <1>1 DEF Kept, Alone
<1>4. ActionableIsRecorded'
  <2> SUFFICES ASSUME NEW q \in Reviews, q # pub.review
               PROVE  /\ q \in Pending(base) \cup Pending(ext) =>
                           q \in verdicts' \cup stranded' \/ (q \in erased' /\ edits' > 0)
                      /\ "executed" \in {base[q], ext[q]} =>
                           q \in verdicts' \cup stranded' \cup erased'
    BY DEF ActionableIsRecorded, Pending
  <2>1. /\ q \in Pending(base) \cup Pending(ext) =>
             q \in verdicts \cup stranded \/ (q \in erased /\ edits > 0)
        /\ "executed" \in {base[q], ext[q]} => q \in verdicts \cup stranded \cup erased
    BY DEF Kept, ActionableIsRecorded
  <2>2. CASE q \in verdicts
    BY <2>2
  <2>3. CASE q \in stranded
    BY <2>3
  <2>4. CASE q \notin verdicts \cup stranded
    BY <2>1, <2>4 DEF LeavesOnRecord, Orphans
  <2> QED BY <2>2, <2>3, <2>4
<1> QED BY <1>1, <1>2, <1>3, <1>4 DEF Kept, Published

\* Between publications commands are only reported, withdrawn or superseded.
Left(t, u) ==
  \A q \in Reviews :
    \/ u[q] = t[q]
    \/ /\ t[q] \in {"pending_execution", "superseded"}
       /\ u[q] \in {"superseded", "executed", "recommended_not_executed"}
       /\ u[q] = "executed" => t[q] = "pending_execution"

NonePending == \A q \in Reviews : "pending_execution" \notin {base[q], ext[q]}

LEMMA Reported ==
  ASSUME Kept, pub.stage = "idle", UNCHANGED <<policy, verdicts, pub, stranded, erased>>,
         Left(base, base'), Left(ext, ext'),
         edits' = edits \/ NonePending'
  PROVE  Kept' /\ Published
<1>1. OnDesk' \subseteq OnDesk
  BY DEF OnDesk, Left
<1>2. OnDesk' = OnDesk \/ (OnDesk' = {} /\ OnDesk # {})
  BY <1>1 DEF Kept, One
<1>3. Fresh' /\ Kinds'
  BY DEF Kept, Fresh, Kinds, Left
<1>4. Alone' /\ One'
  BY <1>1 DEF Kept, Alone, One
<1>5. ActionableIsRecorded'
  <2> SUFFICES ASSUME NEW q \in Reviews, q # pub.review
               PROVE  /\ "pending_execution" \in {base'[q], ext'[q]} =>
                           q \in verdicts \cup stranded \/ (q \in erased /\ edits' > 0)
                      /\ "executed" \in {base'[q], ext'[q]} =>
                           q \in verdicts \cup stranded \cup erased
    BY DEF ActionableIsRecorded, Pending
  <2>1. /\ "pending_execution" \in {base[q], ext[q]} =>
             q \in verdicts \cup stranded \/ (q \in erased /\ edits > 0)
        /\ "executed" \in {base[q], ext[q]} => q \in verdicts \cup stranded \cup erased
    BY DEF Kept, ActionableIsRecorded, Pending
  <2>2. /\ "pending_execution" \in {base'[q], ext'[q]} =>
             "pending_execution" \in {base[q], ext[q]} /\ edits' = edits
        /\ "executed" \in {base'[q], ext'[q]} =>
             \/ "pending_execution" \in {base[q], ext[q]}
             \/ "executed" \in {base[q], ext[q]}
    BY DEF Left, NonePending
  <2> QED BY <2>1, <2>2
<1>6. Published
  BY <1>2 DEF Published, Desk!Next, Desk!Clear
<1> QED BY <1>3, <1>4, <1>5, <1>6 DEF Kept

\* Nothing but its own command is pending while a publication runs.
LEMMA DeskIsEmpty ==
  ASSUME Kept, pub.stage # "idle", NEW q \in Reviews, q # pub.review
  PROVE  base[q] # "pending_execution" /\ ext[q] # "pending_execution"
BY DEF Kept, Alone, Kinds, OnDesk, Commands, Extended

\* The rows of the other reviews, which a publication does not change.
Others == \A q \in Reviews \ {pub.review} : base'[q] = base[q] /\ ext'[q] = ext[q]

LEMMA Continues ==
  ASSUME Kept, pub.stage # "idle", Others,
         pub'.stage \notin {"idle", "begun"}, pub'.review = pub.review,
         pub'.pendingBase = {}, pub'.pendingExt = {},
         UNCHANGED <<policy, verdicts, server, stranded, erased, edits>>,
         base'[pub.review] \in {"pending_execution", "not_required"},
         ext'[pub.review] \in {"none", "pending_execution"},
         base'[pub.review] = "pending_execution" => policy[pub.review] \in Commands,
         ext'[pub.review] = "pending_execution" => policy[pub.review] \in Extended
  PROVE  Kept' /\ Published
<1>1. OnDesk' = OnDesk /\ OnDesk = {}
  BY DEF OnDesk, Others, Kept, Alone
<1>2. Fresh'
  BY DEF Kept, Fresh, Others
<1>3. Kinds'
  BY DEF Kept, Kinds, Others
<1>4. Alone'
  BY <1>1 DEF Kept, Alone
<1>5. One'
  BY <1>1 DEF One
<1>6. ActionableIsRecorded'
  BY DEF Kept, ActionableIsRecorded, Others, Pending
<1> QED BY <1>1, <1>2, <1>3, <1>4, <1>5, <1>6 DEF Kept, Published

LEMMA Ends ==
  ASSUME Kept, pub.stage # "idle", Others, pub' = Idle, policy' = policy,
         verdicts' = verdicts \/ verdicts' = verdicts \cup {pub.review},
         erased' = erased, stranded \subseteq stranded', LeavesOnRecord,
         base'[pub.review] \in {"none", "pending_execution", "not_required", "publication_failed"},
         ext'[pub.review] \in {"none", "pending_execution", "publication_failed"},
         base'[pub.review] = "none" => ext'[pub.review] = "none" /\ verdicts' = verdicts,
         base'[pub.review] = "pending_execution" => policy[pub.review] \in Commands,
         ext'[pub.review] = "pending_execution" => policy[pub.review] \in Extended,
         "pending_execution" \in {base'[pub.review], ext'[pub.review]}
           => pub.review \in verdicts' \cup stranded'
  PROVE  Kept' /\ Published
<1>0. pub.review \in Reviews /\ pub.review \notin verdicts \cup erased /\ OnDesk = {}
  BY DEF Kept, Alone
<1>1. OnDesk' \subseteq {pub.review}
  BY <1>0 DEF OnDesk, Others
<1>2. Fresh'
  BY <1>0 DEF Kept, Fresh, Others
<1>3. Kinds'
  BY DEF Kept, Kinds, Others
<1>4. Alone'
  BY DEF Alone, Idle
<1>5. One'
  BY <1>1 DEF One
<1>6. ActionableIsRecorded'
  <2> SUFFICES ASSUME NEW q \in Reviews
               PROVE  /\ "pending_execution" \in {base'[q], ext'[q]} =>
                           q \in verdicts' \cup stranded' \/ (q \in erased' /\ edits' > 0)
                      /\ "executed" \in {base'[q], ext'[q]} =>
                           q \in verdicts' \cup stranded' \cup erased'
    BY DEF ActionableIsRecorded, Pending
  <2>1. CASE q = pub.review
    BY <2>1
  <2>2. CASE q # pub.review
    <3>1. /\ base'[q] = base[q] /\ ext'[q] = ext[q]
          /\ "pending_execution" \in {base[q], ext[q]} =>
               q \in verdicts \cup stranded \/ (q \in erased /\ edits > 0)
          /\ "executed" \in {base[q], ext[q]} => q \in verdicts \cup stranded \cup erased
      BY <2>2 DEF Kept, ActionableIsRecorded, Others, Pending
    <3>2. q \in Pending(base) \cup Pending(ext) <=> "pending_execution" \in {base[q], ext[q]}
      BY DEF Pending
    <3> QED BY <3>1, <3>2 DEF LeavesOnRecord, Orphans
  <2> QED BY <2>1, <2>2
<1>7. Published
  <2>1. OnDesk' \in {{}, {pub.review}}
    BY <1>1
  <2>2. pub.review \in Desk!Reviews
    BY <1>0 DEF Desk!Reviews, Reviews
  <2>3. CASE verdicts' = verdicts \cup {pub.review}
    <3>1. verdicts' \cup erased' = (verdicts \cup erased) \cup {pub.review}
      BY <2>3
    <3> QED BY <1>0, <2>1, <2>2, <3>1 DEF Published, Desk!Next, Desk!Publish
  <2>4. CASE verdicts' = verdicts /\ OnDesk' = {pub.review}
    BY <1>0, <2>2, <2>4 DEF Published, Desk!Next, Desk!Strand
  <2>5. CASE verdicts' = verdicts /\ OnDesk' = {}
    BY <1>0, <2>5 DEF Published
  <2> QED BY <2>1, <2>3, <2>4, <2>5
<1> QED BY <1>2, <1>3, <1>4, <1>5, <1>6, <1>7 DEF Kept

-----------------------------------------------------------------------------
(* The invariant.                                                          *)

LEMMA InitKept == Init => Inv
<1> SUFFICES ASSUME Init PROVE Inv
  OBVIOUS
<1>1. \A q \in Reviews : /\ base[q] \in {"none", "executed", "not_required"} /\ ext[q] = "none"
                         /\ q # 1 => base[q] = "none"
  BY DEF Init
<1>2. OnDesk = {}
  BY <1>1 DEF OnDesk
<1>3. \A q \in Reviews : base[q] # "none" => q \in verdicts
  BY <1>1 DEF Init
<1>4. Fresh
  BY <1>1 DEF Init, Fresh
<1>5. Kinds /\ Alone /\ One /\ Asked
  BY <1>1, <1>2 DEF Init, Kinds, Alone, One, Asked, Idle
<1>6. ActionableIsRecorded
  BY <1>1, <1>3 DEF ActionableIsRecorded, Pending
<1> QED BY <1>4, <1>5, <1>6 DEF Inv, Kept

\* A table keeps the rows that a function update does not name.
LEMMA RowUpdate ==
  ASSUME NEW table \in Tables, NEW r \in Reviews, NEW s
  PROVE  /\ [table EXCEPT ![r] = s][r] = s
         /\ \A q \in Reviews \ {r} : [table EXCEPT ![r] = s][q] = table[q]
BY DEF Tables

LEMMA WithdrawnLeaves == ASSUME NEW table PROVE Left(table, Withdrawn(table))
BY DEF Left, Withdrawn

LEMMA RowLeaves ==
  ASSUME NEW table \in Tables, NEW r \in Reviews, NEW s \in Statuses,
         \/ table[r] = "pending_execution" /\ s = "executed"
         \/ table[r] \in {"pending_execution", "superseded"} /\ s = "recommended_not_executed"
  PROVE  Left(table, [table EXCEPT ![r] = s])
BY RowUpdate DEF Left

LEMMA SameLeaves == ASSUME NEW table PROVE Left(table, table)
BY DEF Left

\* The publication's own steps.
LEMMA PublicationStep ==
  ASSUME TypeOK, TypeOK', Inv, Publication PROVE Kept' /\ Published
<1> USE DEF Inv
<1>a. base \in Tables /\ ext \in Tables /\ policy \in [Reviews -> Policies] /\ pub \in Pubs
  BY DEF TypeOK, Tables, Pubs
<1>1. CASE \E r \in Reviews, p \in Policies : Begin(r, p)
  <2> PICK r \in Reviews, p \in Policies : Begin(r, p)
    BY <1>1
  <2>1. PICK overtaken \in SUBSET Reviews : Unresolved(r, overtaken) = {}
    BY DEF Begin
  <2>2. base[r] = "none" /\ ext[r] = "none" /\ r \notin verdicts \cup erased /\ pub = Idle
    BY DEF Begin, Kept, Fresh, Alone, JournalFree
  <2>3. \A q \in Reviews \ {r} : /\ policy[q] \notin {"HOLD"} \cup Extended =>
                                      base[q] \notin {"pending_execution", "superseded"}
                                 /\ ext[q] # "pending_execution"
    BY <2>1 DEF Unresolved
  <2>4. OnDesk = {}
    BY <2>2, <2>3 DEF OnDesk
  <2>5. /\ base' = base /\ ext' = ext /\ verdicts' = verdicts /\ stranded' = stranded
        /\ erased' = erased /\ edits' = edits
        /\ server' = "up" /\ pub'.stage = "begun" /\ pub'.review = r
        /\ pub'.pendingBase = Pending(base) /\ pub'.pendingExt = Pending(ext)
    BY DEF Begin, Up
  <2>6. \A q \in Reviews \ {r} : policy'[q] = policy[q]
    BY <1>a DEF Begin
  <2>7. Pending(base) = {} /\ Pending(ext) = {}
    BY <2>2, <2>3 DEF Pending, Kept, Kinds, Commands, Extended
  <2>8. OnDesk' = {}
    BY <2>3, <2>5, <2>6 DEF OnDesk
  <2>9. Fresh' /\ Kinds' /\ One'
    BY <2>2, <2>5, <2>6, <2>8 DEF Kept, Fresh, Kinds, One
  <2>10. Alone'
    BY <2>2, <2>5, <2>7, <2>8 DEF Alone
  <2>11. ActionableIsRecorded'
    <3>1. \A q \in Reviews : q # pub.review
      BY <2>2 DEF Idle, NoReview, Reviews
    <3> QED BY <2>5, <3>1 DEF Kept, ActionableIsRecorded, Pending
  <2> QED BY <2>4, <2>5, <2>8, <2>9, <2>10, <2>11 DEF Kept, Published
<1>b. pub.stage # "idle" =>
        /\ pub.review \in Reviews /\ pub.pendingBase = {} /\ pub.pendingExt = {}
        /\ base[pub.review] \in {"none", "pending_execution", "not_required"}
        /\ ext[pub.review] \in {"none", "pending_execution"}
        /\ base[pub.review] = "none" => ext[pub.review] = "none"
        /\ pub.stage = "begun" <=> base[pub.review] = "none"
        /\ base[pub.review] = "pending_execution" => policy[pub.review] \in Commands
        /\ ext[pub.review] = "pending_execution" => policy[pub.review] \in Extended
  BY DEF Kept, Alone, Fresh, Kinds
<1>c. pub.stage # "idle" =>
        /\ \A q \in Reviews \ {pub.review} : Superseded(base, pub.review)[q] = base[q]
        /\ \A q \in Reviews \ {pub.review} : Superseded(ext, pub.review)[q] = ext[q]
        /\ pub.review \in Reviews => /\ Superseded(base, pub.review)[pub.review] = base[pub.review]
                                     /\ Superseded(ext, pub.review)[pub.review] = ext[pub.review]
        /\ Superseded(base, pub.review) \in Tables /\ Superseded(ext, pub.review) \in Tables
  BY <1>a, DeskIsEmpty, TableTypes DEF Superseded
<1>2. CASE RegisterDecision
  <2>1. pub.stage = "begun" /\ pub'.stage = "registered" /\ pub'.review = pub.review
        /\ pub'.pendingBase = pub.pendingBase /\ pub'.pendingExt = pub.pendingExt
    BY <1>2, <1>a DEF RegisterDecision, Pubs
  <2>2. Others
    BY <1>2, <2>1, <1>b, <1>c, RowUpdate DEF RegisterDecision, Others
  <2>3. base'[pub.review] = IF policy[pub.review] \in {"HOLD"} \cup Extended
                              THEN "not_required" ELSE "pending_execution"
    BY <1>2, <2>1, <1>b, <1>c, RowUpdate DEF RegisterDecision
  <2>4. policy[pub.review] \in Policies
    BY <1>a, <1>b, <2>1
  <2>5. base'[pub.review] = "pending_execution" => policy[pub.review] \in Commands
    BY <2>3, <2>4 DEF Policies, Commands, Extended
  <2> QED BY <1>2, <1>b, <2>1, <2>2, <2>3, <2>5, Continues DEF RegisterDecision
<1>3. CASE RegisterShadowAction
  <2>1. pub.stage = "registered" /\ pub'.stage = "extended" /\ pub'.review = pub.review
        /\ pub'.pendingBase = pub.pendingBase /\ pub'.pendingExt = pub.pendingExt
    BY <1>3, <1>a DEF RegisterShadowAction, Pubs
  <2>2. Others
    BY <1>3, <2>1, <1>b, <1>c, RowUpdate DEF RegisterShadowAction, Others
  <2>3. ext'[pub.review] = "pending_execution" /\ policy[pub.review] \in Extended
    BY <1>3, <2>1, <1>b, <1>c, RowUpdate DEF RegisterShadowAction
  <2> QED BY <1>3, <1>b, <2>1, <2>2, <2>3, Continues DEF RegisterShadowAction
<1>4. CASE SupersedeOthers
  <2>1. pub.stage \in {"registered", "extended"} /\ pub'.stage = "alone"
        /\ pub'.review = pub.review
        /\ pub'.pendingBase = pub.pendingBase /\ pub'.pendingExt = pub.pendingExt
    BY <1>4, <1>a DEF SupersedeOthers, Pubs
  <2>2. Others
    BY <1>4, <2>1, <1>c DEF SupersedeOthers, Others
  <2>3. base'[pub.review] = base[pub.review] /\ ext'[pub.review] = ext[pub.review]
    BY <1>4, <2>1, <1>b, <1>c DEF SupersedeOthers
  <2> QED BY <1>4, <1>b, <2>1, <2>2, <2>3, Continues DEF SupersedeOthers
<1>5. CASE RecordVerdict
  <2>1. pub.stage = "alone" /\ pub' = Idle /\ verdicts' = verdicts \cup {pub.review}
    BY <1>5 DEF RecordVerdict
  <2>2. Others
    BY <1>5 DEF RecordVerdict, Others
  <2> QED BY <1>5, <1>b, <2>1, <2>2, Ends DEF RecordVerdict, LeavesOnRecord
<1>6. CASE PublicationFails
  <2>1. pub.stage # "idle"
    BY <1>6 DEF PublicationFails
  <2>2. \A q \in Reviews : /\ base'[q] = Compensated(base, {})[q]
                           /\ ext'[q] = Compensated(ext, {})[q]
    BY <1>6, <2>1, <1>b DEF PublicationFails
  <2>3. Others
    BY <2>2 DEF Others, Compensated
  <2>4. /\ base'[pub.review] \in {"none", "publication_failed"}
        /\ ext'[pub.review] \in {"none", "publication_failed"}
        /\ base'[pub.review] = "none" => ext'[pub.review] = "none"
    BY <2>1, <2>2, <1>b DEF Compensated
  <2>5. /\ pub' = Idle /\ policy' = policy /\ verdicts' = verdicts /\ erased' = erased
        /\ stranded \subseteq stranded' /\ LeavesOnRecord
    BY <1>6 DEF PublicationFails, LeavesOnRecord
  <2>6. /\ base'[pub.review] # "pending_execution" /\ ext'[pub.review] # "pending_execution"
        /\ base'[pub.review] \in {"none", "pending_execution", "not_required", "publication_failed"}
        /\ ext'[pub.review] \in {"none", "pending_execution", "publication_failed"}
    BY <2>4
  <2> QED BY <2>1, <2>3, <2>4, <2>5, <2>6, Ends DEF Kept
<1>7. CASE CompensationFails
  <2>1. Others
    BY <1>7 DEF CompensationFails, Others
  <2> QED BY <1>7, <1>b, <2>1, Ends DEF CompensationFails, LeavesOnRecord
<1> QED BY <1>1, <1>2, <1>3, <1>4, <1>5, <1>6, <1>7 DEF Publication

LEMMA KeptStep ==
  ASSUME TypeOK, TypeOK', Inv, [Next]_vars PROVE Kept' /\ Published
<1>a. Kept /\ base \in Tables /\ ext \in Tables
  BY DEF TypeOK, Tables, Inv
<1>b. server # "up" => pub.stage = "idle"
  BY <1>a DEF Kept, Alone
<1>1. CASE Publication
  BY <1>1, PublicationStep
<1>2. CASE \E r \in Reviews : ConfirmDecision(r) \/ ConfirmStop(r) \/ NotExecuted(r)
  <2> PICK r \in Reviews : ConfirmDecision(r) \/ ConfirmStop(r) \/ NotExecuted(r)
    BY <1>2
  <2>1. pub.stage = "idle" /\ UNCHANGED <<policy, verdicts, pub, stranded, erased, edits>>
    BY DEF ConfirmDecision, ConfirmStop, NotExecuted, LedgerFree
  <2>2. Left(base, base) /\ Left(ext, ext)
    BY SameLeaves
  <2>3. CASE ConfirmDecision(r)
    <3>1. base' = [base EXCEPT ![r] = "executed"] /\ ext' = ext /\ base[r] = "pending_execution"
      BY <2>3 DEF ConfirmDecision
    <3>2. Left(base, [base EXCEPT ![r] = "executed"])
      BY <1>a, <3>1, RowLeaves DEF Statuses
    <3>3. Left(base, base') /\ Left(ext, ext')
      BY <2>2, <3>1, <3>2
    <3> QED BY <1>a, <2>1, <3>3, Reported
  <2>4. CASE ConfirmStop(r)
    <3>1. ext' = [ext EXCEPT ![r] = "executed"] /\ base' = base /\ ext[r] = "pending_execution"
      BY <2>4 DEF ConfirmStop
    <3>2. Left(ext, [ext EXCEPT ![r] = "executed"])
      BY <1>a, <3>1, RowLeaves DEF Statuses
    <3>3. Left(base, base') /\ Left(ext, ext')
      BY <2>2, <3>1, <3>2
    <3> QED BY <1>a, <2>1, <3>3, Reported
  <2>5. CASE NotExecuted(r)
    <3>1. Left(base, base') /\ Left(ext, ext')
      <4>1. CASE /\ base[r] \in {"pending_execution", "superseded"}
                 /\ base' = [base EXCEPT ![r] = "recommended_not_executed"] /\ ext' = ext
        <5>1. Left(base, [base EXCEPT ![r] = "recommended_not_executed"])
          BY <1>a, <4>1, RowLeaves DEF Statuses
        <5> QED BY <2>2, <4>1, <5>1
      <4>2. CASE /\ ext[r] \in {"pending_execution", "superseded"}
                 /\ ext' = [ext EXCEPT ![r] = "recommended_not_executed"] /\ base' = base
        <5>1. Left(ext, [ext EXCEPT ![r] = "recommended_not_executed"])
          BY <1>a, <4>2, RowLeaves DEF Statuses
        <5> QED BY <2>2, <4>2, <5>1
      <4> QED BY <2>5, <4>1, <4>2 DEF NotExecuted
    <3> QED BY <1>a, <2>1, <3>1, Reported
  <2> QED BY <2>3, <2>4, <2>5
<1>3. CASE EditSupersede \/ Withdraw
  <2>1. Left(base, base') /\ Left(ext, ext')
    BY <1>3, WithdrawnLeaves DEF EditSupersede, Withdraw
  <2>2. /\ pub.stage = "idle" /\ UNCHANGED <<policy, verdicts, pub, stranded, erased>>
        /\ NonePending'
    BY <1>3 DEF EditSupersede, Withdraw, LedgerFree, NonePending, Withdrawn
  <2> QED BY <1>a, <2>1, <2>2, Reported
<1>4. CASE \E total \in BOOLEAN : Exit(total)
  <2> PICK total \in BOOLEAN : Exit(total)
    BY <1>4
  <2>1. Left(base, base') /\ Left(ext, ext')
    BY WithdrawnLeaves, SameLeaves DEF Exit
  <2> QED BY <1>a, <2>1, Reported DEF Exit, LedgerFree
<1>5. CASE ManualFill \/ Resolve \/ EndingFails \/ EnterTotal \/ Human
  <2>1. UNCHANGED <<policy, base, ext, verdicts, pub, stranded, erased, edits, server>>
    BY <1>5 DEF ManualFill, Resolve, EndingFails, EnterTotal, Human, CheckHuman, InsertHuman
  <2> QED BY <1>a, <2>1, Quiet DEF LeavesOnRecord
<1>12. CASE EditLevels
  <2>1. /\ UNCHANGED <<policy, base, ext, pub, stranded, server>> /\ edits' > 0
        /\ verdicts' \cup erased' = verdicts \cup erased /\ erased \subseteq erased'
    BY <1>12 DEF EditLevels, TypeOK
  <2> QED BY <1>a, <2>1, Quiet DEF LeavesOnRecord
<1>13. CASE EditKeeps
  <2>1. /\ UNCHANGED <<policy, base, ext, verdicts, pub, erased, server>>
        /\ stranded \subseteq stranded' /\ Orphans \subseteq stranded'
    BY <1>13 DEF EditKeeps
  <2> QED BY <1>a, <2>1, Quiet DEF LeavesOnRecord
<1>6. CASE ReconcileClosures \/ ReplayRepaired \/ CrashAtStart
  <2>1. /\ UNCHANGED <<policy, base, ext, verdicts, pub, stranded, erased, edits>>
        /\ server # "up"
    BY <1>6 DEF ReconcileClosures, ReplayRepaired, CrashAtStart
  <2> QED BY <1>a, <1>b, <2>1, Quiet DEF LeavesOnRecord
<1>7. CASE RecoverRemainder
  <2>1. Left(base, base') /\ Left(ext, ext')
    BY <1>7, WithdrawnLeaves, SameLeaves DEF RecoverRemainder
  <2>2. pub.stage = "idle" /\ UNCHANGED <<policy, verdicts, pub, stranded, erased, edits>>
    BY <1>7, <1>b DEF RecoverRemainder
  <2> QED BY <1>a, <2>1, <2>2, Reported
<1>8. CASE Crash
  <2>a. stranded \subseteq stranded' /\ LeavesOnRecord
    BY <1>8 DEF Crash, LeavesOnRecord, TypeOK
  <2>1. CASE pub.stage = "idle"
    <3>1. UNCHANGED <<policy, base, ext, verdicts, pub, erased>>
      BY <1>8, <2>1, <1>a DEF Crash, Kept, Alone
    <3> QED BY <1>a, <2>a, <2>1, <3>1, Quiet
  <2>2. CASE pub.stage # "idle"
    <3>1. /\ Others /\ base' = base /\ ext' = ext /\ pub' = Idle /\ policy' = policy
          /\ verdicts' = verdicts /\ erased' = erased
          /\ pub.stage # "begun" => pub.review \in stranded'
      BY <1>8, <2>2 DEF Crash, Others
    <3>2. /\ base[pub.review] \in {"none", "pending_execution", "not_required"}
          /\ ext[pub.review] \in {"none", "pending_execution"}
          /\ base[pub.review] = "none" => ext[pub.review] = "none"
          /\ pub.stage = "begun" <=> base[pub.review] = "none"
          /\ base[pub.review] = "pending_execution" => policy[pub.review] \in Commands
          /\ ext[pub.review] = "pending_execution" => policy[pub.review] \in Extended
      BY <1>a, <2>2 DEF Kept, Alone, Fresh, Kinds
    <3>3. /\ base'[pub.review] = "none" => ext'[pub.review] = "none" /\ verdicts' = verdicts
          /\ "pending_execution" \in {base'[pub.review], ext'[pub.review]}
               => pub.review \in verdicts' \cup stranded'
          /\ base'[pub.review] \in {"none", "pending_execution", "not_required", "publication_failed"}
          /\ ext'[pub.review] \in {"none", "pending_execution", "publication_failed"}
          /\ base'[pub.review] = "pending_execution" => policy[pub.review] \in Commands
          /\ ext'[pub.review] = "pending_execution" => policy[pub.review] \in Extended
      BY <3>1, <3>2
    <3> QED BY <1>a, <2>a, <2>2, <3>1, <3>3, Ends
  <2> QED BY <2>1, <2>2
<1>9. CASE UNCHANGED vars
  BY <1>9, <1>a, Quiet DEF vars, LeavesOnRecord
<1>10. CASE Receipts
  BY <1>2, <1>3, <1>4, <1>5, <1>10, <1>12, <1>13 DEF Receipts
<1>11. CASE Start
  BY <1>6, <1>7, <1>11 DEF Start
<1> QED BY <1>1, <1>5, <1>6, <1>8, <1>9, <1>10, <1>11 DEF Next

LEMMA AskedStep == Asked /\ [Next]_vars => Asked'
<1> SUFFICES ASSUME Asked, [Next]_vars PROVE Asked'
  OBVIOUS
<1>1. CASE Publication
  BY <1>1 DEF Asked, Publication, Begin, RegisterDecision, RegisterShadowAction, SupersedeOthers,
     RecordVerdict, PublicationFails, CompensationFails
<1>2. CASE Receipts
  <2>1. CASE UNCHANGED <<asking, server, replays>>
    BY <2>1 DEF Asked
  <2>2. CASE Resolve \/ EditLevels
    BY <2>2 DEF Asked, Resolve, EditLevels, JournalFree
  <2> QED BY <1>2, <2>1, <2>2 DEF Receipts, ConfirmDecision, ConfirmStop, NotExecuted, ManualFill,
          EditSupersede, EditKeeps, Exit, Withdraw, EndingFails, EnterTotal
<1>3. CASE Human
  BY <1>3 DEF Asked, Human, CheckHuman, InsertHuman, Up
<1>4. CASE Start
  BY <1>4 DEF Asked, Start, ReconcileClosures, ReplayRepaired, RecoverRemainder
<1>5. CASE Crash \/ CrashAtStart
  BY <1>5 DEF Asked, Crash, CrashAtStart
<1>6. CASE UNCHANGED vars
  BY <1>6 DEF Asked, vars
<1> QED BY <1>1, <1>2, <1>3, <1>4, <1>5, <1>6 DEF Next

-----------------------------------------------------------------------------
(* The theorems.                                                           *)

LEMMA InvAlways == Spec => [](TypeOK /\ Inv)
<1>1. TypeOK /\ Inv /\ [Next]_vars => TypeOK' /\ Inv'
  BY TypeStep, KeptStep, AskedStep DEF Inv, Kept
<1> QED BY <1>1, InitTypes, InitKept, PTL DEF Spec

\* Every variable keeps its type.
THEOREM TypeCorrect == Spec => []TypeOK
BY InvAlways, PTL

\* A command the user may act on has its verdict on record, unless the process, the
\* compensation or an edit failed in between, or an edit has its command still to withdraw.
THEOREM Recorded == Spec => []ActionableIsRecorded
<1>1. Inv => ActionableIsRecorded
  BY DEF Inv, Kept
<1> QED BY <1>1, InvAlways, PTL

\* The tables never ask for two actions.
THEOREM OneCommand == Spec => []OneCommandAtATime
<1>1. TypeOK /\ Inv => OneCommandAtATime
  <2> SUFFICES ASSUME TypeOK, Inv PROVE OneCommandAtATime
    OBVIOUS
  <2>1. \A q \in Pending(base) \cup Pending(ext) : q # pub.review => q \in OnDesk
    BY DEF Inv, Kept, Kinds, Pending, OnDesk, Commands, Extended
  <2>2. pub.stage = "idle" => pub.review \notin Reviews
    BY DEF Inv, Kept, Alone, Idle, NoReview, Reviews
  <2>3. \A q, r \in Pending(base) \cup Pending(ext) : q = r
    BY <2>1, <2>2 DEF Inv, Kept, Alone, One, Pending
  <2>4. Pending(base) \cap Pending(ext) = {}
    BY DEF Inv, Kept, Kinds, Pending, Commands, Extended
  <2> QED BY <2>3, <2>4 DEF OneCommandAtATime
<1> QED BY <1>1, InvAlways, PTL

\* No human decision is added to a review that has been replayed.
THEOREM HumanFirst == Spec => HumanBeforeReplay
<1>1. Inv /\ [Next]_vars => [(humans' \ humans) \cap replays = {}]_vars
  BY DEF Inv, Asked, Next, vars, Publication, Begin, RegisterDecision, RegisterShadowAction,
     SupersedeOthers, RecordVerdict, PublicationFails, CompensationFails, Receipts,
     ConfirmDecision, ConfirmStop, NotExecuted, ManualFill, EditLevels, EditSupersede,
     EditKeeps, Exit, Withdraw, Resolve, EndingFails, EnterTotal, Human, CheckHuman, InsertHuman,
     Start, ReconcileClosures, ReplayRepaired, RecoverRemainder, Crash, CrashAtStart
<1> QED BY <1>1, InvAlways, PTL DEF Spec, HumanBeforeReplay

\* To everyone else a publication is one step: the desk of the tables implements ReviewDesk,
\* through failures, compensations and restarts.
THEOREM ImplementsDesk == Spec => PublishesAtOnce
<1>1. Init => Desk!Init
  <2> SUFFICES ASSUME Init PROVE Desk!Init
    OBVIOUS
  <2>1. \A q \in Reviews : base[q] \in {"none", "executed", "not_required"} /\ ext[q] = "none"
    BY DEF Init
  <2>2. OnDesk = {}
    BY <2>1 DEF OnDesk
  <2>3. (verdicts = {} \/ verdicts = {1}) /\ erased = {}
    BY DEF Init
  <2> QED BY <2>2, <2>3 DEF Desk!Init
<1>2. TypeOK /\ TypeOK' /\ Inv /\ [Next]_vars => Published
  BY KeptStep
<1> QED BY <1>1, <1>2, InvAlways, PTL DEF Spec, PublishesAtOnce, Desk!Spec, Published

-----------------------------------------------------------------------------
(* The end of the trade.  Rows of older versions are settled before        *)
(* anything else runs, and a verdict is only recorded on an open trade.    *)

\* An exhausted ledger is closed once its settlement has been reconciled...
Final == server # "starting" =>
           (trade.exhausted => ~trade.open \/ trade.basis = "manual_total_override")

\* ...and a remainder that a closed trade still has once the process is up is one whose
\* recovery raised.
Whole == Up /\ LeftOpen(trade) => recoveryError

\* A closed trade is replayed, about to be, or was left so by a process that died.
Replayed == ~trade.open /\ ending = "no" /\ ~unreplayed /\ server # "repaired" =>
              verdicts \subseteq replays \cup skipped

PublishedOpen == pub.stage # "idle" => trade.open

Over == Final /\ Whole /\ Replayed /\ PublishedOpen

\* What Settled and Exhaust do to a row.
LEMMA SettledRow ==
  ASSUME NEW row \in Row
  PROVE  LET s == Settled(row) IN
         /\ s.exhausted = row.exhausted /\ s.tracked = row.tracked
         /\ ~row.open => ~s.open
         /\ s.exhausted => ~s.open \/ s.basis = "manual_total_override"
         /\ s.open = row.open \/ s # row
BY DEF Settled, Row

LEMMA ExhaustedRow ==
  ASSUME NEW row \in Row, NEW manual \in BOOLEAN
  PROVE  LET s == Exhaust(row, manual) IN
         /\ s \in Row /\ s.exhausted
         /\ ~row.open => ~s.open
         /\ ~s.open \/ s.basis = "manual_total_override"
<1> DEFINE left == [row EXCEPT !.exhausted = TRUE, !.manualExit = @ \/ manual]
<1>1. (row.manualExit \/ manual) \in BOOLEAN
  OBVIOUS
<1>2. left \in Row /\ left.exhausted /\ left.open = row.open
  BY <1>1 DEF Row
<1>3. Exhaust(row, manual) = Settled(left)
  BY DEF Exhaust
<1> HIDE DEF left
<1> QED BY <1>2, <1>3, SettledRow, SettledType

LEMMA InitOver == Init => Over
<1> SUFFICES ASSUME Init PROVE Over
  OBVIOUS
<1>1. verdicts = {} \/ trade.open
  BY DEF Init
<1> QED BY <1>1 DEF Init, Over, Final, Whole, Replayed, PublishedOpen, Up, Idle

\* Steps that leave the row alone.
LEMMA RowKept ==
  ASSUME Over, UNCHANGED <<trade, server, recoveryError>>, unreplayed => unreplayed',
         verdicts' = {} \/ (replays \subseteq replays' /\ skipped \subseteq skipped'),
         verdicts' \subseteq verdicts \/ trade.open, ending # "no" => ending' # "no" \/ unreplayed',
         pub'.stage # "idle" => pub.stage # "idle" \/ trade.open
  PROVE  Over'
BY DEF Over, Final, Whole, LeftOpen, Replayed, PublishedOpen, Up

\* A receipt that may have ended the trade.
LEMMA MayEnd ==
  ASSUME TypeOK, Over, Up, pub.stage = "idle",
         UNCHANGED <<verdicts, replays, skipped, pub, server, recoveryError, unreplayed>>,
         trade' = trade \/ trade' = Exhaust(trade, FALSE),
         ending' = IF Ended(trade') THEN "withdraw" ELSE "no"
  PROVE  Over'
<1>a. trade \in Row
  BY DEF TypeOK
<1>1. \/ trade' = trade
      \/ trade'.exhausted /\ (~trade'.open \/ trade'.basis = "manual_total_override")
  BY <1>a, ExhaustedRow
<1>2. ~trade'.open => ending' # "no"
  BY DEF Ended
<1> QED BY <1>1, <1>2 DEF Over, Final, Whole, LeftOpen, Replayed, PublishedOpen, Up

LEMMA OverStep == TypeOK /\ Inv /\ Over /\ [Next]_vars => Over'
<1> SUFFICES ASSUME TypeOK, Inv, Over, [Next]_vars PROVE Over'
  OBVIOUS
<1>a. trade \in Row
  BY DEF TypeOK
<1>b. server # "up" => pub.stage = "idle"
  BY DEF Inv, Kept, Alone
<1>1. CASE Publication
  <2>1. UNCHANGED <<trade, server, recoveryError, replays, skipped, unreplayed, ending>>
    BY <1>1 DEF Publication, Begin, RegisterDecision, RegisterShadowAction, SupersedeOthers,
       RecordVerdict, PublicationFails, CompensationFails
  <2>2. \/ trade.open /\ verdicts' = verdicts
        \/ pub.stage # "idle" /\ verdicts' \subseteq verdicts \cup {pub.review}
    BY <1>1 DEF Publication, Begin, RegisterDecision, RegisterShadowAction, SupersedeOthers,
       RecordVerdict, PublicationFails, CompensationFails
  <2>3. trade.open
    BY <2>2 DEF Over, PublishedOpen
  <2> QED BY <2>1, <2>2, <2>3, RowKept
<1>2. CASE \E r \in Reviews : ConfirmDecision(r) \/ ConfirmStop(r) \/ NotExecuted(r)
  <2> PICK r \in Reviews : ConfirmDecision(r) \/ ConfirmStop(r) \/ NotExecuted(r)
    BY <1>2
  <2>1. CASE ConfirmDecision(r)
    BY <2>1, MayEnd DEF ConfirmDecision, LedgerFree
  <2>2. CASE ConfirmStop(r) \/ NotExecuted(r)
    BY <2>2, RowKept DEF ConfirmStop, NotExecuted
  <2> QED BY <2>1, <2>2
<1>14. CASE ManualFill
  BY <1>14, MayEnd DEF ManualFill, LedgerFree
<1>3. CASE EditLevels \/ EditSupersede \/ EditKeeps \/ Withdraw \/ Resolve \/ EndingFails
  <2>1. CASE EditLevels \/ EditSupersede \/ EditKeeps \/ Withdraw \/ EndingFails
    BY <2>1, RowKept DEF EditLevels, EditSupersede, EditKeeps, Withdraw, EndingFails
  <2>2. CASE Resolve
    <3>1. /\ verdicts' \subseteq replays' \cup skipped'
          /\ UNCHANGED <<trade, server, recoveryError, pub>>
      BY <2>2 DEF Resolve, Replay
    <3> QED BY <3>1 DEF Over, Final, Whole, LeftOpen, Replayed, PublishedOpen, Up
  <2> QED BY <1>3, <2>1, <2>2
<1>4. CASE \E total \in BOOLEAN : Exit(total)
  <2> PICK total \in BOOLEAN : Exit(total)
    BY <1>4
  <2>1. ending' # "no" /\ UNCHANGED <<pub, server, recoveryError>> /\ pub.stage = "idle" /\ Up
    BY DEF Exit, LedgerFree
  <2>2. CASE trade' = trade
    BY <2>1, <2>2 DEF Over, Final, Whole, LeftOpen, Replayed, PublishedOpen, Up
  <2>3. CASE trade' = Exhaust(trade, TRUE)
    <3>1. trade'.exhausted /\ (~trade'.open \/ trade'.basis = "manual_total_override")
      BY <1>a, <2>3, ExhaustedRow
    <3> QED BY <2>1, <3>1 DEF Over, Final, Whole, LeftOpen, Replayed, PublishedOpen, Up
  <2>4. CASE trade' = [Exhaust(trade, TRUE) EXCEPT !.basis = "manual_total_override"]
    <3>1. Exhaust(trade, TRUE) \in Row /\ Exhaust(trade, TRUE).exhausted
      BY <1>a, ExhaustedRow
    <3>2. trade'.exhausted /\ trade'.basis = "manual_total_override"
      BY <2>4, <3>1 DEF Row
    <3> QED BY <2>1, <3>2 DEF Over, Final, Whole, LeftOpen, Replayed, PublishedOpen, Up
  <2> QED BY <2>2, <2>3, <2>4 DEF Exit
<1>5. CASE EnterTotal
  <2>1. /\ trade'.open = trade.open /\ trade'.exhausted = trade.exhausted
        /\ trade'.tracked = trade.tracked /\ trade'.basis = "manual_total_override"
        /\ UNCHANGED <<verdicts, replays, skipped, pub, ending, server, recoveryError, unreplayed>>
    BY <1>5, <1>a DEF EnterTotal, Row
  <2> QED BY <2>1 DEF Over, Final, Whole, LeftOpen, Replayed, PublishedOpen, Up
<1>6. CASE Human
  BY <1>6, RowKept DEF Human, CheckHuman, InsertHuman
<1>7. CASE ReconcileClosures
  <2>1. /\ UNCHANGED <<verdicts, replays, skipped, pub, ending, unreplayed>>
        /\ trade' \in {trade, Settled(trade)}
        /\ trade' = trade => server' = "reconciled"
        /\ trade' # trade => server' = "repaired"
        /\ trade' # Settled(trade) => ~(trade.exhausted /\ trade.open)
    BY <1>7 DEF ReconcileClosures
  <2>2. Final' /\ Whole' /\ Replayed'
    BY <1>a, <1>7, <2>1, SettledRow DEF ReconcileClosures, Over, Final, Whole, Replayed, Up
  <2>3. PublishedOpen'
    BY <1>7, <1>b, <2>1 DEF ReconcileClosures, PublishedOpen
  <2> QED BY <2>2, <2>3 DEF Over
<1>8. CASE ReplayRepaired
  <2>1. /\ verdicts' \subseteq replays' \cup skipped' /\ UNCHANGED <<trade, pub>>
        /\ server = "repaired" /\ server' = "reconciled"
    BY <1>8 DEF ReplayRepaired, Replay
  <2> QED BY <2>1 DEF Over, Final, Whole, LeftOpen, Replayed, PublishedOpen, Up
<1>9. CASE RecoverRemainder
  <2>1. /\ UNCHANGED <<verdicts, replays, skipped, pub, ending, unreplayed>>
        /\ server = "reconciled" /\ server' = "up"
        /\ \/ LeftOpen(trade) /\ trade' = Exhaust(trade, TRUE)
           \/ trade' = trade /\ recoveryError'
           \/ trade' = trade /\ ~LeftOpen(trade)
    BY <1>9 DEF RecoverRemainder
  <2>2. Final' /\ Whole' /\ Replayed'
    <3>1. CASE LeftOpen(trade) /\ trade' = Exhaust(trade, TRUE)
      <4>1. trade'.exhausted /\ ~trade'.open
        BY <1>a, <3>1, ExhaustedRow DEF LeftOpen
      <4> QED BY <2>1, <3>1, <4>1 DEF Over, Final, Whole, Replayed, Up, LeftOpen
    <3>2. CASE trade' = trade /\ (recoveryError' \/ ~LeftOpen(trade))
      BY <2>1, <3>2 DEF Over, Final, Whole, Replayed, Up
    <3> QED BY <2>1, <3>1, <3>2
  <2>3. PublishedOpen'
    BY <1>b, <2>1 DEF PublishedOpen
  <2> QED BY <2>2, <2>3 DEF Over
<1>10. CASE Crash \/ CrashAtStart
  <2>1. /\ UNCHANGED <<trade, verdicts, replays, skipped>> /\ server' = "starting"
        /\ pub'.stage = "idle" \/ pub' = pub
    BY <1>10 DEF Crash, CrashAtStart, Idle
  <2>3. (unreplayed \/ ending # "no" \/ server = "repaired") => (ending' # "no" \/ unreplayed')
    <3>1. CASE Crash
      <4>1. server # "repaired" /\ unreplayed' = (unreplayed \/ ending # "no")
        BY <3>1 DEF Crash, Up
      <4> QED BY <4>1
    <3>2. CASE CrashAtStart
      <4>1. unreplayed' = (unreplayed \/ server = "repaired") /\ ending' = ending
        BY <3>2 DEF CrashAtStart
      <4> QED BY <4>1
    <3> QED BY <1>10, <3>1, <3>2
  <2>2. PublishedOpen'
    BY <2>1 DEF Over, PublishedOpen
  <2> QED BY <2>1, <2>2, <2>3 DEF Over, Final, Whole, Replayed, Up
<1>11. CASE UNCHANGED vars
  BY <1>11 DEF vars, Over, Final, Whole, Replayed, PublishedOpen, Up
<1>12. CASE Receipts
  BY <1>2, <1>3, <1>4, <1>5, <1>12, <1>14 DEF Receipts
<1>13. CASE Start
  BY <1>7, <1>8, <1>9, <1>13 DEF Start
<1> QED BY <1>1, <1>6, <1>10, <1>11, <1>12, <1>13 DEF Next

LEMMA OverAlways == Spec => []Over
BY InvAlways, InitOver, OverStep, PTL DEF Spec

\* A started process finds no exit left in the middle, whichever older version left it,
\* except where the recovery of the remainder raised, which is then on record.
THEOREM StartupIsSettled == Spec => []StartupSettles
<1>1. Over => StartupSettles
  BY DEF Over, Final, Whole, LeftOpen, StartupSettles, Up
<1> QED BY <1>1, OverAlways, PTL

\* Every review of a closed trade has its replay once the handlers are done, or could not be
\* replayed, unless one of the handlers died in between.
THEOREM ClosedAreReplayed == Spec => []ClosedReviewsAreReplayed
<1>1. Over => ClosedReviewsAreReplayed
  BY DEF Over, Replayed, ClosedReviewsAreReplayed, Up
<1> QED BY <1>1, OverAlways, PTL

=============================================================================
