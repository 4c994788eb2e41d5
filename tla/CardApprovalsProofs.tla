------------------------ MODULE CardApprovalsProofs ------------------------
(***************************************************************************)
(* Card and question agree for any number of requests, changes of the      *)
(* price and proposals: what the locks promise each other is the inductive *)
(* part.                                                                   *)
(***************************************************************************)
EXTENDS CardApprovals, TLAPS

\* While a request holds a row nobody else does, and the question stays as it
\* was when the bot took it, and the history of prices as the edit found it.
HoldsWhatItRead(c) ==
    /\ LocksQuestion(c) => question = "pending"
    /\ At(c, "bot", call[c].step) => call[c].step \notin {"locked", "written"}
    /\ At(c, "pricer", "locked") =>
          Exists /\ call[c].base.prices = card.content.prices + 1

Exclusive ==
    \A c, d \in Call : c # d => /\ ~(LocksQuestion(c) /\ LocksQuestion(d))
                                /\ ~(LocksCard(c) /\ LocksCard(d))

Unasked == card.status = "absent" => question = "none"

Inv == /\ TypeOK
       /\ Unasked
       /\ \A c \in Call : HoldsWhatItRead(c)
       /\ Exclusive
       /\ QuestionIsOpen
       /\ ApprovedIsFact

\* A request that goes on keeps its type.
LEMMA GoesOn ==
  ASSUME NEW r \in Calls, NEW n \in Nat, NEW d \in Drafts
  PROVE  /\ [r EXCEPT !.step = "written"] \in Calls
         /\ [r EXCEPT !.step = "drafted", !.seen = d] \in Calls
         /\ [r EXCEPT !.step = "dropped", !.drop = n] \in Calls
         /\ [r EXCEPT !.step = "written", !.drop = n] \in Calls
  BY DEF Calls

\* What a request consists of.
LEMMA Row == ASSUME TypeOK, NEW c \in Call
             PROVE  call[c] \in Calls /\ draft \in Drafts /\ draft.row \in Nat
  BY DEF TypeOK, Drafts

\* A request goes on with what it finds in the row of the draft.
LEMMA Goes ==
  ASSUME TypeOK, NEW c \in Call
  PROVE  /\ [call[c] EXCEPT !.step = "written"] \in Calls
         /\ [call[c] EXCEPT !.step = "drafted", !.seen = draft] \in Calls
         /\ [call[c] EXCEPT !.step = "dropped", !.drop = draft.row] \in Calls
         /\ [call[c] EXCEPT !.step = "written", !.drop = draft.row] \in Calls
  BY Row, GoesOn

\* What an edit holds under the lock has the type of a request.
LEMMA Held ==
  ASSUME NEW by \in {"editor", "pricer"}, NEW base \in Contents
  PROVE  \E r \in Calls : /\ r = [step |-> "locked", by |-> by, base |-> base,
                                   seen |-> NoDraft, drop |-> 0]
                          /\ r.by = by /\ r.base = base /\ r.step = "locked"
  <1>1. NoDraft \in Drafts
    BY DEF NoDraft, Drafts
  <1>2. [step |-> "locked", by |-> by, base |-> base, seen |-> NoDraft, drop |-> 0] \in Calls
    BY <1>1 DEF Calls
  <1> QED
    BY <1>2

\* A longer history is a history.
LEMMA Longer ==
  ASSUME NEW base \in Contents, NEW n \in Nat
  PROVE  [base EXCEPT !.prices = n] \in Contents /\ [base EXCEPT !.prices = n].prices = n
  BY DEF Contents

\* The two forms in which an edit holds the card.
LEMMA Locked ==
  ASSUME TypeOK, NEW c \in Call, EditLocks(c)
  PROVE  \E r \in Calls : /\ call' = [call EXCEPT ![c] = r]
                          /\ r.by \in {"editor", "pricer"} /\ r.step = "locked"
                          /\ r.by = "pricer" =>
                               r.base.prices = card.content.prices + 1
  <1>0. call[c].base \in Contents /\ card.content.prices + 1 \in Nat
    BY DEF TypeOK, Calls, Contents
  <1>1. CASE Begins(c, "editor", "locked", call[c].base, NoDraft)
    BY <1>0, <1>1, Held DEF Begins
  <1>2. CASE Begins(c, "pricer", "locked",
                    [call[c].base EXCEPT !.prices = card.content.prices + 1], NoDraft)
    <2>1. PICK b \in Contents : /\ b = [call[c].base EXCEPT !.prices = card.content.prices + 1]
                                /\ b.prices = card.content.prices + 1
      BY <1>0, Longer
    <2>2. Begins(c, "pricer", "locked", b, NoDraft)
      BY <1>2, <2>1
    <2>3. PICK r \in Calls : /\ r = [step |-> "locked", by |-> "pricer", base |-> b,
                                     seen |-> NoDraft, drop |-> 0]
                             /\ r.by = "pricer" /\ r.base = b /\ r.step = "locked"
      BY Held
    <2>4. call' = [call EXCEPT ![c] = r]
      BY <2>2, <2>3 DEF Begins
    <2> QED
      BY <2>1, <2>3, <2>4
  <1> QED
    BY <1>1, <1>2 DEF EditLocks

\* While the rows stay as they are only the request has to be looked at.
LEMMA StillTyped ==
  ASSUME TypeOK, UNCHANGED rows, NEW c \in Call, NEW r \in Calls,
         call' = [call EXCEPT ![c] = r]
  PROVE  TypeOK'
  BY DEF TypeOK, rows

\* The edit keeps the types when it locks the card.
LEMMA LockTyped ==
  ASSUME TypeOK, NEW c \in Call, EditLocks(c)
  PROVE  TypeOK'
  <1>1. UNCHANGED rows
    BY DEF EditLocks
  <1> QED
    BY <1>1, Locked, StillTyped

\* Every step keeps the types.
LEMMA TypeStep == TypeOK /\ [Next]_vars => TypeOK'
  <1> SUFFICES ASSUME TypeOK, [Next]_vars PROVE TypeOK'
    OBVIOUS
  <1> USE DEF TypeOK, Contents, Drafts, Calls, NoDraft, Blank, Idle
  <1>1. CASE UNCHANGED vars
    BY <1>1 DEF vars
  <1>2. CASE Create
    BY <1>2 DEF Create
  <1>3. CASE Propose
    BY <1>3 DEF Propose
  <1>4. ASSUME NEW c \in Call, CallStep(c) PROVE TypeOK'
    <2>0. CASE EditReads(c)
      BY <2>0 DEF EditReads, Begins, rows
    <2>1. CASE EditLocks(c)
      BY <2>1, LockTyped
    <2>2. CASE EditEnds(c)
      BY <2>2 DEF EditEnds, Ends
    <2>3. CASE BotTakes(c)
      BY <2>3 DEF BotTakes, Begins, rows
    <2>4. CASE BotReads(c)
      <3>1. CASE card.status = "draft"
        BY <2>4, <3>1 DEF BotReads, Begins, rows
      <3>2. CASE card.status # "draft"
        BY <2>4, <3>2 DEF BotReads, Ends
      <3> QED
        BY <3>1, <3>2
    <2>5. CASE BotEnds(c)
      BY <2>5 DEF BotEnds, Ends, Approved, Without, With
    <2>6. CASE BotRefuses(c)
      BY <2>6 DEF BotRefuses
    <2>7. CASE PanelReads(c)
      BY <2>7 DEF PanelReads, Begins, rows
    <2>8. CASE PanelWrites(c)
      BY <2>8, Goes DEF PanelWrites, rows
    <2>9. CASE PanelEnds(c)
      BY <2>9 DEF PanelEnds, Ends, Approved, Without, With
    <2>10. CASE ReadDraft(c)
      BY <2>10, Goes, StillTyped DEF ReadDraft, rows
    <2>11. CASE DropDraft(c)
      BY <2>11, Goes, StillTyped DEF DropDraft, rows
    <2>12. CASE FieldReadsDraft(c)
      BY <2>12 DEF FieldReadsDraft, Begins, rows
    <2>13. CASE FieldReadsCard(c)
      BY <2>13 DEF FieldReadsCard, Begins, Ends, rows
    <2>14. CASE FieldWrites(c)
      BY <2>14, Goes DEF FieldWrites, rows
    <2>15. CASE FieldEnds(c)
      BY <2>15 DEF FieldEnds, Ends, Without, With
    <2>16. CASE FieldRefused(c)
      BY <2>16 DEF FieldRefused, Ends, Without
    <2>17. CASE RemoveLocks(c)
      BY <2>17 DEF RemoveLocks, Begins, rows
    <2>18. CASE RemoveDeletes(c)
      BY <2>18, Goes, StillTyped DEF RemoveDeletes, rows
    <2>19. CASE RemoveEnds(c)
      BY <2>19 DEF RemoveEnds, Ends
    <2>20. CASE Abort(c)
      BY <2>20 DEF Abort, Ends, rows
    <2> QED
      BY <1>4, <2>0, <2>1, <2>2, <2>3, <2>4, <2>5, <2>6, <2>7, <2>8, <2>9, <2>10, <2>11, <2>12,
         <2>13, <2>14, <2>15, <2>16, <2>17, <2>18, <2>19, <2>20 DEF CallStep
  <1> QED
    BY <1>1, <1>2, <1>3, <1>4 DEF Next

\* What each request relies on holds on.
LEMMA LockStep ==
  ASSUME Inv, [Next]_vars
  PROVE  (\A c \in Call : HoldsWhatItRead(c))' /\ Exclusive'
  <1> DEFINE Locks == (\A d \in Call : HoldsWhatItRead(d)) /\ Exclusive
  <1> SUFFICES Locks'
    OBVIOUS
  <1>0. Locks /\ TypeOK /\ QuestionIsOpen /\ ApprovedIsFact
    BY DEF Inv
  <1> USE <1>0 DEF HoldsWhatItRead, Exclusive, LocksQuestion, LocksCard, At, Exists,
                   QuestionFree, CardFree, Idle, TypeOK, Calls
  <1>1. CASE UNCHANGED vars
    BY <1>1 DEF vars
  <1>2. CASE Create
    BY <1>2 DEF Create
  <1>3. CASE Propose
    BY <1>3 DEF Propose
  <1>4. ASSUME NEW c \in Call, CallStep(c) PROVE Locks'
    <2>0. CASE EditReads(c)
      BY <2>0 DEF EditReads, Begins, rows
    <2>1. CASE EditLocks(c)
      <3>1. PICK r \in Calls : /\ call' = [call EXCEPT ![c] = r]
                               /\ r.by \in {"editor", "pricer"} /\ r.step = "locked"
                               /\ r.by = "pricer" =>
                                    r.base.prices = card.content.prices + 1
        BY <2>1, Locked
      <3>2. Exists /\ CardFree /\ UNCHANGED rows
        BY <2>1 DEF EditLocks
      <3> QED
        BY <3>1, <3>2 DEF rows
    <2>2. CASE EditEnds(c)
      BY <2>2 DEF EditEnds, Ends
    <2>3. CASE BotTakes(c)
      BY <2>3 DEF BotTakes, Begins, rows
    <2>4. CASE BotReads(c)
      BY <2>4 DEF BotReads, Begins, Ends, rows
    <2>5. CASE BotEnds(c)
      BY <2>5 DEF BotEnds, Ends, Approved
    <2>6. CASE BotRefuses(c)
      BY <2>6 DEF BotRefuses
    <2>7. CASE PanelReads(c)
      BY <2>7 DEF PanelReads, Begins, rows
    <2>8. CASE PanelWrites(c)
      BY <2>8 DEF PanelWrites, rows
    <2>9. CASE PanelEnds(c)
      BY <2>9 DEF PanelEnds, Ends, Approved
    <2>10. CASE ReadDraft(c)
      BY <2>10 DEF ReadDraft, rows
    <2>11. CASE DropDraft(c)
      BY <2>11 DEF DropDraft, rows
    <2>12. CASE FieldReadsDraft(c)
      BY <2>12 DEF FieldReadsDraft, Begins, rows
    <2>13. CASE FieldReadsCard(c)
      BY <2>13 DEF FieldReadsCard, Begins, Ends, rows
    <2>14. CASE FieldWrites(c)
      BY <2>14 DEF FieldWrites, rows
    <2>15. CASE FieldEnds(c)
      BY <2>15 DEF FieldEnds, Ends
    <2>16. CASE FieldRefused(c)
      BY <2>16 DEF FieldRefused, Ends
    <2>17. CASE RemoveLocks(c)
      BY <2>17 DEF RemoveLocks, Begins, rows
    <2>18. CASE RemoveDeletes(c)
      BY <2>18 DEF RemoveDeletes, rows
    <2>19. CASE RemoveEnds(c)
      BY <2>19 DEF RemoveEnds, Ends
    <2>20. CASE Abort(c)
      BY <2>20 DEF Abort, Ends, rows
    <2> QED
      BY <1>4, <2>0, <2>1, <2>2, <2>3, <2>4, <2>5, <2>6, <2>7, <2>8, <2>9, <2>10, <2>11, <2>12,
         <2>13, <2>14, <2>15, <2>16, <2>17, <2>18, <2>19, <2>20 DEF CallStep
  <1> QED
    BY <1>1, <1>2, <1>3, <1>4 DEF Next

\* The steps that leave card and question alone.
Quiet(c) ==
    \/ EditReads(c) \/ EditLocks(c) \/ BotTakes(c) \/ PanelReads(c) \/ PanelWrites(c)
    \/ ReadDraft(c) \/ DropDraft(c) \/ FieldReadsDraft(c) \/ FieldReadsCard(c)
    \/ FieldWrites(c) \/ FieldRefused(c) \/ RemoveLocks(c) \/ RemoveDeletes(c)
    \/ Abort(c)

\* They change neither of them, and no price.
LEMMA QuietKeeps ==
  ASSUME NEW c \in Call, Quiet(c)
  PROVE  UNCHANGED <<card, question, priced>>
  BY DEF Quiet, EditReads, EditLocks, BotTakes, PanelReads, PanelWrites, ReadDraft, DropDraft,
         FieldReadsDraft, FieldReadsCard, FieldWrites, FieldRefused, RemoveLocks,
         RemoveDeletes, Abort, rows

\* Every other step is the last of its request, or answers at once.
LEMMA QuietOrLast ==
  ASSUME NEW c \in Call, CallStep(c)
  PROVE  \/ Quiet(c) \/ EditEnds(c) \/ BotReads(c) \/ BotEnds(c) \/ BotRefuses(c)
         \/ PanelEnds(c) \/ FieldEnds(c) \/ RemoveEnds(c)
  BY DEF CallStep, Quiet

\* The question follows the card, and an answer is final.
LEMMA QuestionStep ==
  ASSUME Inv, [Next]_vars
  PROVE  /\ QuestionIsOpen' /\ ApprovedIsFact' /\ Unasked'
         /\ question \notin {"none", "pending"} => question' = question
  <1> DEFINE Agree == /\ QuestionIsOpen' /\ ApprovedIsFact' /\ Unasked'
                      /\ question \notin {"none", "pending"} => question' = question
  <1>0. /\ QuestionIsOpen /\ ApprovedIsFact /\ Unasked
        /\ \A c \in Call : HoldsWhatItRead(c)
        /\ card \in [status : {"absent", "draft", "fact", "removed"}, content : Contents]
    BY DEF Inv, TypeOK
  <1> USE <1>0 DEF QuestionIsOpen, ApprovedIsFact, Unasked, HoldsWhatItRead
  <1>1. CASE UNCHANGED vars
    BY <1>1 DEF vars
  <1>2. CASE Create
    BY <1>2 DEF Create
  <1>3. CASE Propose
    BY <1>3 DEF Propose
  <1>4. ASSUME NEW c \in Call, CallStep(c) PROVE Agree
    <2>1. CASE Quiet(c)
      BY <2>1, QuietKeeps
    <2>2. CASE EditEnds(c)
      BY <2>2 DEF EditEnds
    <2>3. CASE BotReads(c)
      BY <2>3 DEF BotReads, At, LocksQuestion, rows
    <2>4. CASE BotEnds(c)
      BY <2>4 DEF BotEnds, At, LocksQuestion, Approved, Exists
    <2>5. CASE BotRefuses(c)
      BY <2>5 DEF BotRefuses
    <2>6. CASE PanelEnds(c)
      BY <2>6 DEF PanelEnds, Approved, Exists
    <2>7. CASE FieldEnds(c)
      BY <2>7 DEF FieldEnds
    <2>8. CASE RemoveEnds(c)
      BY <2>8 DEF RemoveEnds
    <2> QED
      BY <1>4, <2>1, <2>2, <2>3, <2>4, <2>5, <2>6, <2>7, <2>8, QuietOrLast
  <1> QED
    BY <1>1, <1>2, <1>3, <1>4 DEF Next

\* A new price adds one to the history it locked; an approval, or an edit of
\* something else, keeps the history it saw.
LEMMA HistoryStep ==
  ASSUME Inv, [Next]_vars
  PROVE  \/ card'.content.prices - card.content.prices = priced' - priced
         \/ \E c \in Call : /\ call[c].by \in {"bot", "panel", "approver", "editor"}
                            /\ call[c].base.prices # card.content.prices
                            /\ call'[c] = Idle
  <1> DEFINE Stale(c) == /\ call[c].by \in {"bot", "panel", "approver", "editor"}
                         /\ call[c].base.prices # card.content.prices
                         /\ call'[c] = Idle
             Sums == card'.content.prices - card.content.prices = priced' - priced
  <1>0. /\ \A c \in Call : HoldsWhatItRead(c)
        /\ card \in [status : {"absent", "draft", "fact", "removed"}, content : Contents]
        /\ priced \in Nat /\ card.content.prices \in Nat
    BY DEF Inv, TypeOK, Contents
  <1>1. UNCHANGED <<card, priced>> => Sums
    BY <1>0
  <1>2. CASE Create
    BY <1>0, <1>2 DEF Create
  <1>3. CASE Propose
    BY <1>1, <1>3 DEF Propose
  <1>4. ASSUME NEW c \in Call, CallStep(c) PROVE Sums \/ Stale(c)
    <2>0. call[c].base \in Contents /\ call[c].base.prices \in Nat /\ call[c] \in Calls
      BY DEF Inv, TypeOK, Calls, Contents
    <2>1. CASE Quiet(c)
      BY <2>1, <1>1, QuietKeeps
    <2>9. Ends(c) => call'[c] = Idle
      BY DEF Inv, TypeOK, Ends
    <2>2. CASE EditEnds(c)
      <3>0. card'.content = call[c].base
        BY <2>2, <1>0 DEF EditEnds
      <3>1. CASE call[c].by = "pricer"
        <4>1. At(c, "pricer", "locked")
          BY <2>2, <3>1 DEF EditEnds, At
        <4>2. call[c].base.prices = card.content.prices + 1
          BY <4>1, <1>0 DEF HoldsWhatItRead
        <4>3. priced' = priced + 1
          BY <2>2, <3>1 DEF EditEnds
        <4> QED
          BY <4>2, <4>3, <3>0, <1>0
      <3>2. CASE call[c].by # "pricer"
        <4>1. call[c].by = "editor" /\ priced' = priced /\ call'[c] = Idle
          BY <2>2, <2>9, <3>2 DEF EditEnds, At
        <4> QED
          BY <4>1, <3>0, <2>0, <1>0
      <3> QED
        BY <3>1, <3>2
    <2>3. CASE BotReads(c) \/ BotRefuses(c)
      BY <2>3, <1>1 DEF BotReads, BotRefuses, rows
    <2>4. CASE BotEnds(c) \/ PanelEnds(c)
      BY <2>4, <2>0, <2>9, <1>0 DEF BotEnds, PanelEnds, Approved, With, At, Contents
    <2>5. CASE FieldEnds(c)
      BY <2>5, <2>0, <2>9, <1>0 DEF FieldEnds, With, At, Contents
    <2>6. CASE RemoveEnds(c)
      BY <2>6, <1>0 DEF RemoveEnds
    <2> QED
      BY <1>4, <2>1, <2>2, <2>3, <2>4, <2>5, <2>6, QuietOrLast
  <1> QED
    BY <1>1, <1>2, <1>3, <1>4 DEF Next, vars

\* The inductive invariant holds at first.
LEMMA InitInv == Init => Inv
  BY DEF Init, Inv, TypeOK, Contents, Drafts, Calls, Idle, Blank, NoDraft, HoldsWhatItRead,
         Exclusive, LocksQuestion, LocksCard, At, QuestionIsOpen, ApprovedIsFact,
         Unasked

\* It holds in every reachable state.
LEMMA Invariance == Spec => []Inv
  <1>1. Inv /\ [Next]_vars => Inv'
    BY TypeStep, LockStep, QuestionStep DEF Inv
  <1> QED
    BY <1>1, InitInv, PTL DEF Spec

\* Rows and requests keep to their ranges, for any number of requests; a draft
\* without a row has no value (entity_draft, propose).
THEOREM CardTyped == Spec => []TypeOK
  <1>1. Inv => TypeOK
    BY DEF Inv
  <1> QED
    BY <1>1, Invariance, PTL

\* A question never outlives the doubt it asks about, whoever approves, edits
\* or removes the card at the same time (approve and remove close it).
THEOREM QuestionFollowsCard == Spec => []QuestionIsOpen
  <1>1. Inv => QuestionIsOpen
    BY DEF Inv
  <1> QED
    BY <1>1, Invariance, PTL

\* An approval never stays without its effect (decide and its execution are
\* one transaction).
THEOREM ApprovalTakesEffect == Spec => []ApprovedIsFact
  <1>1. Inv => ApprovedIsFact
    BY DEF Inv
  <1> QED
    BY <1>1, Invariance, PTL

\* The answer of the owner is never replaced by a later one.
THEOREM OneAnswer == Spec => AnswerIsFinal
  <1>1. Inv /\ [Next]_vars =>
          [question \notin {"none", "pending"} => question' = question]_vars
    BY QuestionStep
  <1> QED
    BY <1>1, Invariance, PTL DEF Spec, AnswerIsFinal

\* A price change leaves the history only with a request that had read the
\* card before it; two changes of the price never cost each other.
THEOREM HistoryKept == Spec => HistoryAddsUp
  <1>1. Inv /\ [Next]_vars =>
          [\/ card'.content.prices - card.content.prices = priced' - priced
           \/ \E c \in Call : /\ call[c].by \in {"bot", "panel", "approver", "editor"}
                              /\ call[c].base.prices # card.content.prices
                              /\ call'[c] = Idle]_vars
    BY HistoryStep
  <1> QED
    BY <1>1, Invariance, PTL DEF Spec, HistoryAddsUp
=============================================================================
