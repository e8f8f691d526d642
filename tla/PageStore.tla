------------------------------ MODULE PageStore ------------------------------
(***************************************************************************)
(* What mausoleum's storage engine promises of its pages: a page has the   *)
(* bytes that were last written to it, and a crash takes none back that a  *)
(* flush had settled before.                                               *)
(***************************************************************************)
EXTENDS Naturals

CONSTANTS Page, Version     \* pages, and the versions of their bytes, 0 for none

VARIABLES content,          \* what a fetch of the page gives
          settled           \* what it held at the last flush that reported success

vars == <<content, settled>>

Init == content = [p \in Page |-> 0] /\ settled = content

Write(p) ==
  /\ content' \in [Page -> Version] /\ content'[p] > content[p]
  /\ \A q \in Page \ {p} : content'[q] = content[q]
  /\ UNCHANGED settled

Flush == settled' = content /\ UNCHANGED content

(* Of what was not settled, some is lost, page by page.                    *)
Crash ==
  /\ content' \in [Page -> Version]
  /\ \A p \in Page : settled[p] <= content'[p] /\ content'[p] <= content[p]
  /\ UNCHANGED settled

Next == (\E p \in Page : Write(p)) \/ Flush \/ Crash

Spec == Init /\ [][Next]_vars

=============================================================================
