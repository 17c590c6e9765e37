------------------------------ MODULE DiffViewer ------------------------------
(***************************************************************************)
(* The viewer of one file's diff (web/diffContentViewer.js).  The browser  *)
(* has three: the commit diff view's, the file explorer's and the staging  *)
(* view's.  Every rendering claims a number first and paints only while it *)
(* holds the latest one.  A viewer is a record; its requests are in flight *)
(* at the page that owns it (Explorer).                                    *)
(***************************************************************************)
EXTENDS Integers

CONSTANTS NoUrl,          \* the viewer shows nothing fetched by URL
          DefaultContext, \* DEFAULT_CONTEXT_LINES
          ContextStep,    \* CONTEXT_EXPAND_STEP
          FullContext     \* context lines that leave no hidden line

ASSUME ContextAssumption == /\ {DefaultContext, FullContext} \subseteq Nat
                            /\ ContextStep \in Nat \ {0}

Blank == [what |-> "blank"]
Spinner == [what |-> "loading"]
Failed(of) == [what |-> "failed", of |-> of]   \* with a button to try again
Broken == [what |-> "broken"]                  \* the context could not be expanded
Diff(of, context) == [what |-> "diff", of |-> of, context |-> context]

NewViewer == [claim |-> 0, visible |-> FALSE, content |-> Blank,
              url |-> NoUrl, context |-> DefaultContext]

(* A rendering of its own claims the number; a later one of the same       *)
(* request paints if it still holds it.                                    *)
claimRenderRequest(v) == [v EXCEPT !.claim = @ + 1]

Paint(v, content) == [v EXCEPT !.visible = TRUE, !.content = content]

showLoading(v) == Paint(claimRenderRequest(v), Spinner)

showRetryError(v, of) == Paint(claimRenderRequest(v), Failed(of))

(* What the answer to request `id` paints, if it paints at all.            *)
PaintAnswer(v, id, content) == IF v.claim = id THEN Paint(v, content) ELSE v

showFromUrl(v, url) == [showLoading(v) EXCEPT !.url = url, !.context = DefaultContext]

(* Expand buttons stand between hunks with hidden lines, and only when the *)
(* diff was fetched by URL.                                                *)
CanExpand(v) == /\ v.visible /\ v.content.what = "diff"
                /\ v.url # NoUrl /\ v.content.context < FullContext

expandContext(v) == [showLoading(v) EXCEPT !.context = @ + ContextStep]

\* Mutant: closing leaves the number to the request under way.
closeUnclaimed(v) == [v EXCEPT !.visible = FALSE, !.content = Blank, !.url = NoUrl, !.context = DefaultContext]

close(v) == [claimRenderRequest(v) EXCEPT !.visible = FALSE, !.content = Blank,
                                          !.url = NoUrl, !.context = DefaultContext]
===============================================================================
