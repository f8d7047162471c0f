---------------------------- MODULE StudioDraft ----------------------------
(***************************************************************************)
(* The draft of a relay in one page of the Studio (createSourceStore, with *)
(* StudioApi and the server's source store): edits, the parse and the      *)
(* autosave after them, the save with its optimistic revision, the prompt  *)
(* of a conflict, the copy in localStorage and the prompt of a reload.     *)
(*                                                                         *)
(* A revision is abstracted to whether it is still the draft's: revisions  *)
(* only grow, so one that another save left behind never is again.  A text *)
(* is a value, and a text in Broken does not pass the schema.  The page    *)
(* may close at any moment with a request on its way, and a request may    *)
(* fail, or be carried out and lose its answer.                            *)
(***************************************************************************)
EXTENDS Naturals, FiniteSets

CONSTANTS
  Texts,   \* what the document may say
  Broken,  \* the ones the schema rejects
  NoText,  \* null
  MaxLate  \* bound: saves of closed pages under way at a time

ASSUME StudioAssumption ==
  Broken \subseteq Texts /\ Texts # Broken /\ NoText \notin Texts /\ MaxLate \in Nat

VARIABLES
  page,   \* the store of the page
  kept,   \* the page's entry in localStorage
  draft,  \* relays.draft
  req,    \* the page's save: on its way, or its answer
  late    \* saves of pages that closed: on their way, or answered

draftVars == <<page, kept, draft, req, late>>

Valid == Texts \ Broken

DraftTypeOK ==
  /\ page \in [open: BOOLEAN, text: Texts, saved: Texts, fresh: BOOLEAN,
               status: {"clean", "dirty", "saving", "saved", "invalid", "conflict", "error"},
               saving: BOOLEAN, edited: BOOLEAN, parse: BOOLEAN, timer: BOOLEAN,
               asks: BOOLEAN, theirs: Texts \cup {NoText}, theirsFresh: BOOLEAN,
               restorable: Texts \cup {NoText},
               wiped: BOOLEAN, missed: BOOLEAN, knows: BOOLEAN]
  /\ kept \in Texts \cup {NoText} /\ draft \in Valid
  /\ req \in [pc: {"none", "sent", "ok", "conflict", "error"}, text: Texts, fresh: BOOLEAN, knows: BOOLEAN]
  /\ late \subseteq [pc: {"sent", "ok"}, text: Valid, fresh: BOOLEAN, wipes: BOOLEAN]

\* A page that opens on the draft x.  wiped, missed and knows are history: the copy
\* of the unsaved text was removed by a discard, by the answer of a page left before
\* or by going back to the saved text, or to theirs, under a save; an autosave came under a save; and the page has
\* the draft's revision from a load, an answer or its author's choice.
Opened(x) ==
  [open |-> TRUE, text |-> x, saved |-> x, fresh |-> TRUE, status |-> "clean", saving |-> FALSE,
   edited |-> FALSE, parse |-> FALSE, timer |-> FALSE, asks |-> FALSE, theirs |-> NoText,
   theirsFresh |-> FALSE, restorable |-> IF kept = x THEN NoText ELSE kept,
   wiped |-> FALSE, missed |-> FALSE, knows |-> TRUE]

NoRequest == [pc |-> "none", text |-> draft, fresh |-> FALSE, knows |-> FALSE]

DraftInit ==
  /\ draft \in Valid /\ kept = NoText /\ late = {}
  /\ page = Opened(draft) /\ req = NoRequest

-----------------------------------------------------------------------------
(* The helpers of the store *)

\* mirror: the text, or nothing when it is the saved one.
Mirrored(p) == IF p.text = p.saved THEN NoText ELSE p.text

StatusFor(p) ==
  CASE p.status \in {"conflict", "saving"} -> p.status
    [] p.text \in Broken -> "invalid"
    [] p.text = p.saved -> "clean"
    [] p.status \in {"saved", "clean"} -> "dirty"
    [] OTHER -> p.status

Parsed(p) == [p EXCEPT !.parse = FALSE, !.status = StatusFor(p)]

\* edit and schedule
Edited(p, x) ==
  [p EXCEPT !.text = x, !.status = "dirty", !.edited = TRUE, !.parse = TRUE, !.timer = TRUE,
            !.wiped = x = p.saved /\ p.saving, !.missed = FALSE]

\* Mutant: the answer is taken for the text of the moment.
AlwaysCurrent(p, x) == TRUE
StillCurrent(p, x)  == ~p.edited /\ p.text = x

-----------------------------------------------------------------------------
(* The author *)

Open ==
  /\ ~page.open
  /\ page' = Opened(draft)
  /\ UNCHANGED <<kept, draft, req, late>>

Edit(x) ==
  /\ page.open /\ x # page.text
  /\ page' = Edited(page, x) /\ kept' = Mirrored(page')
  /\ UNCHANGED <<draft, req, late>>

Restore ==
  /\ page.open /\ page.restorable # NoText
  /\ page' = Edited([page EXCEPT !.restorable = NoText], page.restorable)
  /\ kept' = Mirrored(page')
  /\ UNCHANGED <<draft, req, late>>

Discard ==
  /\ page.open /\ page.restorable # NoText
  /\ page' = [page EXCEPT !.restorable = NoText, !.wiped = @ \/ page.text # page.saved] /\ kept' = NoText
  /\ UNCHANGED <<draft, req, late>>

KeepMine ==
  /\ page.open /\ page.asks
  /\ page' = [page EXCEPT !.fresh = page.theirsFresh, !.asks = FALSE, !.theirs = NoText,
                          !.theirsFresh = FALSE, !.status = "dirty", !.knows = page.theirsFresh]
  /\ UNCHANGED <<kept, draft, req, late>>

TakeTheirs ==
  /\ page.open /\ page.asks /\ page.theirs # NoText
  /\ page' = Parsed([page EXCEPT !.text = page.theirs, !.saved = page.theirs, !.fresh = page.theirsFresh,
                                 !.asks = FALSE, !.theirs = NoText, !.theirsFresh = FALSE,
                                 !.status = "clean", !.knows = page.theirsFresh, !.wiped = page.saving])
  /\ kept' = NoText
  /\ UNCHANGED <<draft, req, late>>

\* The page is reloaded, or left for another one of the app: its timers stop and its
\* request goes on.  Of a page that was left, the answer is still handled.
Close(left) ==
  /\ page.open
  /\ page' = [Opened(page.saved) EXCEPT !.open = FALSE, !.restorable = NoText]
  /\ req' = NoRequest
  /\ IF req.pc \in {"sent", "ok"}
     THEN /\ Cardinality(late) < MaxLate
          /\ late' = late \cup {[pc |-> req.pc, text |-> req.text, fresh |-> req.fresh,
                                 wipes |-> left /\ StillCurrent(page, req.text)]}
     ELSE UNCHANGED late
  /\ UNCHANGED <<kept, draft>>

-----------------------------------------------------------------------------
(* The page *)

Parse ==
  /\ page.open /\ page.parse
  /\ page' = Parsed(page)
  /\ UNCHANGED <<kept, draft, req, late>>

SaveNow ==
  LET p == Parsed([page EXCEPT !.timer = FALSE]) IN
  /\ \/ /\ p.saving
        /\ page' = [p EXCEPT !.missed = req.pc # "none"]
        /\ UNCHANGED req
     \/ /\ ~p.saving /\ p.text = p.saved
        /\ page' = [p EXCEPT !.status = "clean"]
        /\ UNCHANGED req
     \/ /\ ~p.saving /\ p.text # p.saved /\ p.text \in Broken
        /\ page' = [p EXCEPT !.status = "invalid"]
        /\ UNCHANGED req
     \/ /\ ~p.saving /\ p.text # p.saved /\ p.text \notin Broken
        /\ page' = [p EXCEPT !.status = "saving", !.saving = TRUE, !.edited = FALSE]
        /\ req' = [pc |-> "sent", text |-> p.text, fresh |-> p.fresh, knows |-> p.knows]
  /\ UNCHANGED <<kept, draft, late>>

Autosave == page.open /\ page.timer /\ SaveNow
Save     == page.open /\ SaveNow

\* Mutant: a save that failed leaves the flag behind.
StillSaving(p) == p
NotSaving(p)   == [p EXCEPT !.saving = FALSE]

AnswerOk ==
  /\ req.pc = "ok"
  /\ LET current == StillCurrent(page, req.text)
         p == [page EXCEPT !.fresh = req.fresh, !.knows = req.fresh, !.saved = req.text,
                           !.saving = FALSE, !.status = IF current THEN "saved" ELSE "dirty"]
     IN page' = p /\ kept' = IF current THEN NoText ELSE kept
  /\ req' = NoRequest
  /\ UNCHANGED <<draft, late>>

\* Mutant: the page adopts the revision of the conflict by itself.
AdoptRevision(p, fresh) == [p EXCEPT !.asks = TRUE, !.fresh = fresh]
AskAuthor(p, fresh)     == [p EXCEPT !.asks = TRUE]

\* The page reads the relay for the other side of the diff, or cannot.
AnswerConflict ==
  /\ req.pc = "conflict"
  /\ \E x \in {draft, NoText} :
       page' = [AskAuthor(page, req.fresh) EXCEPT !.status = "conflict", !.saving = FALSE,
                  !.theirs = x, !.theirsFresh = req.fresh]
  /\ req' = NoRequest
  /\ UNCHANGED <<kept, draft, late>>

AnswerError ==
  /\ req.pc = "error"
  /\ page' = NotSaving([page EXCEPT !.status = "error"])
  /\ req' = NoRequest
  /\ UNCHANGED <<kept, draft, late>>

-----------------------------------------------------------------------------
(* The server *)

\* A save leaves every revision behind that is held anywhere.
Behind(p) == [p EXCEPT !.fresh = FALSE, !.theirsFresh = FALSE, !.knows = FALSE]
Stale(q)  == [q EXCEPT !.fresh = FALSE]

Accepts(q) == q.fresh

Serve ==
  /\ req.pc = "sent"
  /\ IF Accepts(req)
     THEN /\ draft' = req.text /\ page' = Behind(page) /\ late' = {Stale(q) : q \in late}
          /\ \E answer \in {"ok", "error"} : req' = [req EXCEPT !.pc = answer]
     ELSE /\ req' = [req EXCEPT !.pc = "conflict", !.fresh = TRUE]
          /\ UNCHANGED <<draft, page, late>>
  /\ UNCHANGED kept

Lost ==
  /\ req.pc = "sent"
  /\ req' = [req EXCEPT !.pc = "error"]
  /\ UNCHANGED <<page, kept, draft, late>>

ServeLate(q) ==
  /\ q.pc = "sent"
  /\ IF Accepts(q)
     THEN /\ draft' = q.text /\ page' = Behind(page) /\ req' = Stale(req)
          /\ late' = {Stale(r) : r \in late \ {q}} \cup {[q EXCEPT !.pc = "ok"]}
     ELSE /\ late' = late \ {q}
          /\ UNCHANGED <<draft, page, req>>
  /\ UNCHANGED kept

\* The store of the page that was left mirrors its saved text: the copy goes, whoever wrote it.
AnswerLate(q) ==
  /\ q.pc = "ok"
  /\ kept' = IF q.wipes THEN NoText ELSE kept
  /\ page' = [page EXCEPT !.wiped = @ \/ (q.wipes /\ page.text # page.saved)]
  /\ late' = late \ {q}
  /\ UNCHANGED <<draft, req>>

\* Another page, the API or the CLI.
OtherSaves(x) ==
  /\ x # draft
  /\ draft' = x /\ page' = Behind(page) /\ req' = Stale(req) /\ late' = {Stale(q) : q \in late}
  /\ UNCHANGED kept

-----------------------------------------------------------------------------

DraftNext ==
  \/ Open \/ Restore \/ Discard \/ KeepMine \/ TakeTheirs
  \/ \E left \in BOOLEAN : Close(left)
  \/ \E x \in Texts : Edit(x)
  \/ Parse \/ Autosave \/ Save \/ AnswerOk \/ AnswerConflict \/ AnswerError
  \/ Serve \/ Lost \/ \E q \in late : ServeLate(q) \/ AnswerLate(q)
  \/ \E x \in Valid : OtherSaves(x)

Fairness ==
  WF_draftVars(Autosave) /\ WF_draftVars(Serve) /\ WF_draftVars(AnswerOk \/ AnswerConflict \/ AnswerError)

DraftSpec == DraftInit /\ [][DraftNext]_draftVars /\ Fairness

-----------------------------------------------------------------------------
(* Properties *)

\* What the bar says and what the browser keeps: "Saved" and "clean" are only shown
\* over the text the server acknowledged, whatever was typed while the save was out;
\* and a text that is not saved is in localStorage for the next load, unless a discard
\* of an older one, a text undone under a save, or a page left before removed it.
StudioSound ==
  /\ DraftTypeOK
  /\ page.status \in {"saved", "clean"} => page.text = page.saved
  /\ page.open /\ page.text # page.saved /\ ~page.wiped => kept = page.text

\* A save never replaces a draft its author does not know of: the page has the draft's
\* revision from its load, from the answer to a save, or from its author's choice in
\* the prompt of the conflict, and never by itself.
NoSilentOverwrite == [][Serve /\ draft' # draft => req.knows]_draftVars

\* An edit that passes the schema is sent when its timer fires, also after a save that
\* failed or conflicted, unless the author undoes it, edits on, or the timer fires
\* while another save is out.
AutosaveTries ==
  (page.timer /\ page.text \in Valid /\ page.text # page.saved)
    ~> (~page.open \/ page.text = page.saved \/ page.text \in Broken \/ req.pc # "none" \/ page.missed)

\* The header of the store: autosave after 2 s of idle when the text passes the
\* schema, that is, the edit is sent, or the author hears why it is not.
AutosaveComes ==
  (page.timer /\ page.text \in Valid /\ page.text # page.saved)
    ~> (~page.open \/ page.text = page.saved \/ page.text \in Broken
        \/ page.asks \/ page.status \in {"error", "saving"})
=============================================================================
