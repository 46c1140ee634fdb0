------------------------------- MODULE FlatMap -------------------------------
(***************************************************************************)
(* What a memory address mapping promises its users (the interface         *)
(* include/memory_address_mapper_api.h): a function from pages to what is  *)
(* mapped there.  A request changes the pages of its range, and no others; *)
(* when memory runs out on the way it changes a beginning of its range.    *)
(* A change of the representation changes no mapping.                      *)
(***************************************************************************)
EXTENDS Naturals

CONSTANTS
    FlatPages,     \* number of pages
    FlatRequests,  \* [op, lo, hi, to, attr, why]: the requests made
    NotMapped,     \* the content of a page nothing was said about
    NoRequest      \* before the first request

VARIABLES
    map,   \* what each page is mapped to
    did,   \* the last request, and whether it was reported to have succeeded
    answer \* the last answer to a query

(* What a request makes of a page's content. *)
Asked(r, p, was) ==
    CASE r.op = "insert" -> [to |-> r.to + (p - r.lo), attr |-> r.attr]
      [] r.op = "remove" -> [why |-> r.why]
      [] r.op = "convert" -> was
      [] OTHER -> IF "why" \in DOMAIN was
                  THEN was
                  ELSE [was EXCEPT !.attr = CASE r.op = "set" -> @ \cup r.attr
                                              [] r.op = "clear" -> @ \ r.attr
                                              [] r.op = "overwrite" -> r.attr]

Served(r, k) == [p \in 0..FlatPages - 1 |-> IF p \in r.lo..k - 1 THEN Asked(r, p, map[p]) ELSE map[p]]

Init ==
    /\ map = [p \in 0..FlatPages - 1 |-> NotMapped]
    /\ did = [req |-> NoRequest, ok |-> TRUE]
    /\ \E p \in 0..FlatPages - 1 : answer = [page |-> p, is |-> NotMapped]

Serve(r, ok, k) ==
    /\ did' = [req |-> r, ok |-> ok]
    /\ ok => k = r.hi
    /\ map' = Served(r, k)
    /\ UNCHANGED answer

Answer(p) ==
    /\ answer' = [page |-> p, is |-> map[p]]
    /\ UNCHANGED <<map, did>>

Next ==
    \/ \E r \in FlatRequests, ok \in BOOLEAN : \E k \in r.lo..r.hi : Serve(r, ok, k)
    \/ \E p \in 0..FlatPages - 1 : Answer(p)

flatVars == <<map, did, answer>>
Spec == Init /\ [][Next]_flatVars
=============================================================================
