---------------------------- MODULE CardApprovals --------------------------
(***************************************************************************)
(* The card of one thing in the registry, the value proposed for one of    *)
(* its fields, and the question to the owner whether the card is a fact    *)
(* (apps/core/src/entities/entities.service.ts and approvals/              *)
(* approvals.service.ts).  The owner answers in the panel or in the bot,   *)
(* and cards are edited and removed meanwhile.                             *)
(*                                                                         *)
(* Statements of a transaction are steps, and what it wrote becomes        *)
(* visible with its last one.  The rows it wrote are locked until then     *)
(* (PostgreSQL, READ COMMITTED): the panel locks draft, card, question;    *)
(* the bot question, draft, card; an approval of the field card, draft;    *)
(* so they may wait for each other, and the database then aborts one.  A   *)
(* call may be aborted at any time and leaves nothing behind.              *)
(*                                                                         *)
(* An edit carries all attributes of the card, as the panel read them      *)
(* before, or, from the bot, none but its own; only the history of prices  *)
(* is taken from the row it locks.                                         *)
(***************************************************************************)
EXTENDS Integers

CONSTANTS Call,          \* requests under way
          MaxPriced,     \* changes of the price
          MaxProposals   \* values proposed for the field

ASSUME CardAssumption == MaxPriced \in Nat /\ MaxProposals \in Nat

VARIABLES card,          \* the entity row
          draft,         \* the entity_draft row of the field
          question,      \* decision of the approval that asks for the card
          priced,        \* changes of the price answered with success
          proposals,
          call           \* where each request stands

vars == <<card, draft, question, priced, proposals, call>>
rows == <<card, draft, question, priced, proposals>>

\* A draft has a row, which a new value keeps, and the value last proposed.
NoDraft == [row |-> 0, value |-> 0]
Blank   == [prices |-> 0, value |-> 0]

\* A request has read the content base and the draft seen, and deletes the
\* draft in the row drop (0 if it found none).
Idle == [step |-> "idle", by |-> "none", base |-> Blank, seen |-> NoDraft,
         drop |-> 0]

Init ==
    /\ card = [status |-> "absent", content |-> Blank]
    /\ draft = NoDraft
    /\ question = "none"
    /\ priced = 0
    /\ proposals = 0
    /\ call = [c \in Call |-> Idle]

Exists == card.status \in {"draft", "fact"}

At(c, by, step) == call[c].by = by /\ call[c].step = step

Begins(c, by, step, base, seen) ==
    call' = [call EXCEPT ![c] = [step |-> step, by |-> by, base |-> base,
                                 seen |-> seen, drop |-> 0]]
Ends(c) == call' = [call EXCEPT ![c] = Idle]

With(base, seen) ==
    IF seen = NoDraft THEN base ELSE [base EXCEPT !.value = seen.value]

Without(row) == IF draft.row = row THEN NoDraft ELSE draft

---------------------------------------------------------------------------
\* Row locks.

LocksQuestion(c) == call[c].by = "bot"
LocksDraft(c)    == call[c].drop # 0

\* Mutant: an edit reads the card without FOR UPDATE.
LocksCardToWrite(c) ==
    call[c].step = "written" \/ At(c, "remover", "locked")

LocksCard(c) == call[c].step \in {"locked", "written"}

QuestionFree == \A c \in Call : ~LocksQuestion(c)
DraftFree    == \A c \in Call : ~LocksDraft(c)
CardFree     == \A c \in Call : ~LocksCard(c)

---------------------------------------------------------------------------

\* create: the card of a field employee asks, that of a source waits without
\* a question, that of the owner is a fact.
Create ==
    /\ card.status = "absent"
    /\ \/ card' = [card EXCEPT !.status = "draft"] /\ question' = "pending"
       \/ card' = [card EXCEPT !.status = "draft"] /\ UNCHANGED question
       \/ card' = [card EXCEPT !.status = "fact"] /\ UNCHANGED question
    /\ UNCHANGED <<draft, priced, proposals, call>>

\* propose: a new row needs its card, which FOR UPDATE withholds.
Propose ==
    /\ Exists
    /\ DraftFree
    /\ draft = NoDraft => \A c \in Call : call[c].step # "locked"
    /\ proposals < MaxProposals
    /\ proposals' = proposals + 1
    /\ draft' = [row |-> IF draft = NoDraft THEN proposals' ELSE draft.row,
                 value |-> proposals']
    /\ UNCHANGED <<card, question, priced, call>>

\* The form an edit starts from; the card has its history of prices, and the
\* field that may be proposed.
EditReads(c) ==
    /\ call[c] = Idle
    /\ Exists
    /\ \E form \in {card.content, Blank} : Begins(c, "editor", "read", form, NoDraft)
    /\ UNCHANGED rows

\* update: under the lock a new price puts the old one into the history of
\* the row; an edit without one brings the history of its form.
EditLocks(c) ==
    /\ At(c, "editor", "read")
    /\ CardFree
    /\ Exists
    /\ \/ Begins(c, "editor", "locked", call[c].base, NoDraft)
       \/ /\ priced < MaxPriced
          /\ Begins(c, "pricer", "locked",
                    [call[c].base EXCEPT !.prices = card.content.prices + 1], NoDraft)
    /\ UNCHANGED rows

EditEnds(c) ==
    /\ At(c, "editor", "locked") \/ At(c, "pricer", "locked")
    /\ card' = [card EXCEPT !.content = call[c].base]
    /\ priced' = IF call[c].by = "pricer" THEN priced + 1 ELSE priced
    /\ Ends(c)
    /\ UNCHANGED <<draft, question, proposals>>

---------------------------------------------------------------------------
\* Approving the card: decide("approved") in the bot, approve in the panel.

\* Mutant: the decision is committed before what it asks for is done.
BotTakesAtOnce(c) ==
    /\ call[c] = Idle
    /\ QuestionFree
    /\ question = "pending"
    /\ question' = "approved"
    /\ Begins(c, "bot", "taken", Blank, NoDraft)
    /\ UNCHANGED <<card, draft, priced, proposals>>

\* The UPDATE that only a pending question answers to.
BotTakes(c) ==
    /\ call[c] = Idle
    /\ QuestionFree
    /\ question = "pending"
    /\ Begins(c, "bot", "taken", Blank, NoDraft)
    /\ UNCHANGED rows

\* executeEntityApprove reads the card without a lock, and leaves one that
\* is gone or approved as it is.
BotReads(c) ==
    /\ At(c, "bot", "taken")
    /\ IF card.status = "draft"
       THEN /\ Begins(c, "bot", "read", card.content, NoDraft)
            /\ UNCHANGED rows
       ELSE /\ question' = "approved"
            /\ Ends(c)
            /\ UNCHANGED <<card, draft, priced, proposals>>

\* approve and approveMany read it before their transaction begins.
PanelReads(c) ==
    /\ call[c] = Idle
    /\ Exists
    /\ Begins(c, "panel", "read", card.content, NoDraft)
    /\ UNCHANGED rows

\* withDrafts of approve is TRUE wherever the method is called
\* (entities.controller.ts:194, entities.service.ts:270).
ReadDraft(c) ==
    /\ At(c, "bot", "read") \/ At(c, "panel", "read")
    /\ call' = [call EXCEPT ![c] = [@ EXCEPT !.step = "drafted", !.seen = draft]]
    /\ UNCHANGED rows

\* DELETE takes what is there now, which may be more than was read.
DropDraft(c) ==
    /\ At(c, "bot", "drafted") \/ At(c, "panel", "drafted")
    /\ DraftFree
    /\ call' = [call EXCEPT ![c] =
                   [@ EXCEPT !.step = "dropped", !.drop = draft.row]]
    /\ UNCHANGED rows

Approved(c) ==
    IF Exists
    THEN [status |-> "fact", content |-> With(call[c].base, call[c].seen)]
    ELSE card

\* The card is the last row the bot writes.
BotEnds(c) ==
    /\ At(c, "bot", "dropped")
    /\ CardFree
    /\ card' = Approved(c)
    /\ draft' = Without(call[c].drop)
    /\ question' = "approved"
    /\ Ends(c)
    /\ UNCHANGED <<priced, proposals>>

PanelWrites(c) ==
    /\ At(c, "panel", "dropped")
    /\ CardFree
    /\ call' = [call EXCEPT ![c].step = "written"]
    /\ UNCHANGED rows

\* Mutant: the question stays open, as before it was closed here.
PanelEndsAlone(c) ==
    /\ At(c, "panel", "written")
    /\ card' = Approved(c)
    /\ draft' = Without(call[c].drop)
    /\ Ends(c)
    /\ UNCHANGED <<question, priced, proposals>>

\* The panel closes the question, if it is still open, and commits.
PanelEnds(c) ==
    /\ At(c, "panel", "written")
    /\ QuestionFree
    /\ card' = Approved(c)
    /\ draft' = Without(call[c].drop)
    /\ question' = IF question = "pending" THEN "approved" ELSE question
    /\ Ends(c)
    /\ UNCHANGED <<priced, proposals>>

\* Mutant: a question that was answered is answered again.
BotRefusesAgain(c) ==
    /\ call[c] = Idle
    /\ QuestionFree
    /\ question # "none"
    /\ question' \in {"rejected", "clarify"}
    /\ UNCHANGED <<card, draft, priced, proposals, call>>

\* decide with another answer leaves the card as it is.
BotRefuses(c) ==
    /\ call[c] = Idle
    /\ QuestionFree
    /\ question = "pending"
    /\ question' \in {"rejected", "clarify"}
    /\ UNCHANGED <<card, draft, priced, proposals, call>>

---------------------------------------------------------------------------
\* approveField and rejectField: what they decide on was read before.

FieldReadsDraft(c) ==
    /\ call[c] = Idle
    /\ draft # NoDraft
    /\ \E by \in {"approver", "refuser"} :
          Begins(c, by, "drafted", Blank, draft)
    /\ UNCHANGED rows

FieldReadsCard(c) ==
    /\ At(c, "approver", "drafted")
    /\ IF Exists THEN Begins(c, "approver", "read", card.content, call[c].seen)
                 ELSE Ends(c)
    /\ UNCHANGED rows

FieldWrites(c) ==
    /\ At(c, "approver", "read")
    /\ CardFree
    /\ call' = [call EXCEPT ![c].step = "written"]
    /\ UNCHANGED rows

FieldEnds(c) ==
    /\ At(c, "approver", "written")
    /\ DraftFree
    /\ card' = IF Exists
               THEN [card EXCEPT !.content = With(call[c].base, call[c].seen)]
               ELSE card
    /\ draft' = Without(call[c].seen.row)
    /\ Ends(c)
    /\ UNCHANGED <<question, priced, proposals>>

FieldRefused(c) ==
    /\ At(c, "refuser", "drafted")
    /\ DraftFree
    /\ draft' = Without(call[c].seen.row)
    /\ Ends(c)
    /\ UNCHANGED <<card, question, priced, proposals>>

---------------------------------------------------------------------------
\* remove: the card under a lock, its drafts with it, then the question.

RemoveLocks(c) ==
    /\ call[c] = Idle
    /\ Exists
    /\ CardFree
    /\ Begins(c, "remover", "locked", Blank, NoDraft)
    /\ UNCHANGED rows

RemoveDeletes(c) ==
    /\ At(c, "remover", "locked")
    /\ DraftFree
    /\ call' = [call EXCEPT ![c] =
                   [@ EXCEPT !.step = "written", !.drop = draft.row]]
    /\ UNCHANGED rows

RemoveEnds(c) ==
    /\ At(c, "remover", "written")
    /\ QuestionFree
    /\ card' = [card EXCEPT !.status = "removed"]
    /\ draft' = NoDraft
    /\ question' = IF question = "pending" THEN "rejected" ELSE question
    /\ Ends(c)
    /\ UNCHANGED <<priced, proposals>>

\* A lost connection, or the victim of a deadlock: all is rolled back.
Abort(c) ==
    /\ call[c] # Idle
    /\ Ends(c)
    /\ UNCHANGED rows

---------------------------------------------------------------------------

CallStep(c) ==
    \/ EditReads(c) \/ EditLocks(c) \/ EditEnds(c)
    \/ BotTakes(c) \/ BotReads(c) \/ BotEnds(c) \/ BotRefuses(c)
    \/ PanelReads(c) \/ PanelWrites(c) \/ PanelEnds(c)
    \/ ReadDraft(c) \/ DropDraft(c)
    \/ FieldReadsDraft(c) \/ FieldReadsCard(c) \/ FieldWrites(c)
    \/ FieldEnds(c) \/ FieldRefused(c)
    \/ RemoveLocks(c) \/ RemoveDeletes(c) \/ RemoveEnds(c)
    \/ Abort(c)

Next == Create \/ Propose \/ \E c \in Call : CallStep(c)

Spec == Init /\ [][Next]_vars

---------------------------------------------------------------------------

Contents == [prices : Nat, value : Nat]
Drafts   == [row : Nat, value : Nat]
Calls    == [step : {"idle", "locked", "taken", "read", "drafted", "dropped",
                     "written"},
             by : {"none", "editor", "pricer", "bot", "panel", "approver",
                   "refuser", "remover"},
             base : Contents, seen : Drafts, drop : Nat]

\* State of the rows and of the requests on them.
TypeOK ==
    /\ card \in [status : {"absent", "draft", "fact", "removed"},
                 content : Contents]
    /\ draft \in Drafts
    /\ question \in {"none", "pending", "approved", "rejected", "clarify"}
    /\ priced \in Nat /\ proposals \in Nat
    /\ call \in [Call -> Calls]
    /\ draft.row = 0 => draft = NoDraft

\* A question that waits in the bot is about a card that waits: an answer in
\* the panel, or the removal of the card, never leaves it hanging
\* (entities.service.ts:226 and 634).
QuestionIsOpen == question = "pending" => card.status = "draft"

\* "Approved" means that the card became a fact, not that it was written in
\* the journal of decisions (approvals.service.ts:179, 240), whoever removed,
\* edited or approved the card at the same time.
ApprovedIsFact == question = "approved" => card.status \in {"fact", "removed"}

\* An answer is given once: neither the panel, nor a removal, nor the second
\* press of a button replaces it (approvals.service.ts:138).
AnswerIsFinal ==
    [][question \notin {"none", "pending"} => question' = question]_vars

\* Every price change that was answered with success is in the history of
\* the card, also when such changes meet (entities.service.ts:653); it is lost
\* only to an approval, of the card or of a field, or to an edit of something
\* else, that had read the card before.
HistoryAddsUp ==
    [][\/ card'.content.prices - card.content.prices = priced' - priced
       \/ \E c \in Call : /\ call[c].by \in {"bot", "panel", "approver", "editor"}
                          /\ call[c].base.prices # card.content.prices
                          /\ call'[c] = Idle]_vars
=============================================================================
