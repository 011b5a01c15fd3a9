---------------------------- MODULE ScreenParts ----------------------------
(***************************************************************************)
(* The words in which the tables describe the screens of the app and the   *)
(* pages of the web front end: what a screen fetches, what it can send,    *)
(* and what its view lets the user do in the meantime.                     *)
(***************************************************************************)

\* A fetch.  on: what starts it, out of
\*   open (mounting), key (a new filter, subject or item), timer, pull
\*   (pull-to-refresh), again (a button that is never off), retry (a button of the
\*   error view), apply (a button that is off while the flag is up), more (the next
\*   page); pick when a new filter is chosen without a fetch; and close when the item
\*   can be closed.
\* late: an answer that a newer key has overtaken is shown ("show") or ignored
\*   ("drop"), or the key cannot change while a fetch runs ("hold"); or the server
\*   has no such path, and every fetch fails ("never").
\* spin: the loading flag is raised by the first fetch only ("ends"), by a new key
\*   too ("key"), by every fetch ("each"), which may also empty the rows ("clears"),
\*   or there is none ("none").
\* fails: a failure is ignored ("hush"), told in an alert ("tells"), empties the
\*   rows ("blanks"), closes the item ("closes"), or sets an error in place of the
\*   rows ("error"), or beside them or where there are none ("banner"), that the
\*   next fetch clears, or that nothing clears ("errorstays", "bannerstays").
Feed(name, on, late, spin, fails) ==
  [name |-> name, on |-> on, late |-> late, spin |-> spin, fails |-> fails]

\* A call that changes something.  needs: form (checked input), sure (confirmed),
\*   once (the handler returns while its flag is up), card (a flag for each row).
\* hits: the feed whose rows it changes, or "aside".
\* ok: it fetches again ("load"), fetches again and waits for it under its flag
\*   ("await"), changes the rows itself ("patch"), changed them before the call
\*   ("first"), leaves ("leave") or neither ("stays"); or the server refuses every
\*   such call ("never").
\* no: a refusal is told ("tells"), ignored ("hushes"), shown in the form ("error"),
\*   taken back ("undoes") or fetched over ("reloads"), or a call without answer is
\*   queued ("queues").
Act(name, needs, hits, ok, no) ==
  [name |-> name, needs |-> needs, hits |-> hits, ok |-> ok, no |-> no]

\* The view.  first: the loading flag hides everything ("waits"), only while there
\*   are no rows ("empty"), or not ("shows").
\* locks: calls whose buttons are off while one such call runs.
\* busy: row calls with one flag that holds the row of the latest call.
\* free: row calls without a flag.
View(first, locks, busy, free) ==
  [first |-> first, locks |-> locks, busy |-> busy, free |-> free]

Screen(name, feeds, acts, view) ==
  [name |-> name, feeds |-> feeds, acts |-> acts, view |-> view]
=============================================================================
