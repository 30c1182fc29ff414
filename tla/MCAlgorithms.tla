---------------------------- MODULE MCAlgorithms ----------------------------
(***************************************************************************)
(* One run for what computes and does not interact: the samples of a link  *)
(* (LinkState), the retain loop (RetainLoop), the search for a path        *)
(* (PathSearch), labels and their schemes, and what is written and read    *)
(* again (MCCodecs).  "part" says which of them a behaviour is about; the  *)
(* variables of the others rest.                                           *)
(***************************************************************************)
EXTENDS LinkState, RetainLoop, PathSearch, MCCodecs

CONSTANT BitSize

-----------------------------------------------------------------------------
(* Announcements of one node that set, move and withdraw its peers, report *)
(* samples only, say nothing, and expire one another.                      *)

PeerE(num, label) == [kind |-> "peer", num |-> num, ip |-> "s", label |-> label, form |-> 0]
AnnAt(ts, reset, entities) ==
  [node |-> "n", ts |-> ts, reset |-> reset, snode |-> "s", entities |-> entities]

MCAnn == {
  AnnAt(1, TRUE, <<[kind |-> "version"], [kind |-> "scheme"], PeerE(1, 5)>>),
  AnnAt(2, FALSE, <<PeerE(1, 0), PeerE(2, 6)>>),
  AnnAt(2, FALSE, <<[kind |-> "linkstate", num |-> 2, filled |-> 2]>>),
  AnnAt(3, FALSE, <<PeerE(2, 7), PeerE(2, 8)>>),
  AnnAt(3, FALSE, <<>>),
  AnnAt(4, FALSE, <<PeerE(1, 5), [kind |-> "linkstate", num |-> 1, filled |-> 1]>>) }

-----------------------------------------------------------------------------
(* Every way to join four nodes by links that cost as much one way as the  *)
(* other or more, no graph at all, and one with an end nobody reported.    *)

MCTag == 1..4
Pairs == { p \in MCTag \X MCTag : p[1] < p[2] }
LinkCosts == {<<0, 0>>, <<1, 1>>, <<3, 1>>}
GraphOf(c) ==
  [n \in MCTag |->
     [m \in { k \in MCTag \ {n} : c[IF n < k THEN <<n, k>> ELSE <<k, n>>] # <<0, 0>> } |->
        IF n < m THEN c[n, m][1] ELSE c[m, n][2]]]
MCGraph ==
  { GraphOf(c) : c \in [Pairs -> LinkCosts] }
    \cup { <<>>, [n \in {1, 2} |-> IF n = 1 THEN (2 :> 1) @@ (3 :> 1) ELSE (3 :> 2) @@ (4 :> 1)] }

MCQuery == {<<1, 4>>, <<4, 1>>, <<2, 2>>}

-----------------------------------------------------------------------------
(* Labels of one and two hops, some too long together, and paths of up to  *)
(* four nodes with peers in forms of every length.                         *)

L == INSTANCE RouteLabels
C == INSTANCE SchemeCodec

Schemes == {L!F4, L!F8, L!V48, L!V37, L!V358}

HopLabel(form, dir) == 2^L!SizeBits(form) + (dir % 2^form.bits) * 2^form.plen + form.prefix
HopLabels(scheme, dirs) == { HopLabel(scheme[i], d) : i \in DOMAIN scheme, d \in dirs }

MCLabels ==
  HopLabels(L!V358, {1, 6, 7, 30, 255}) \cup HopLabels(L!F8, {0, 3}) \cup {L!Self}
    \cup { L!Spliced(a, b) : a, b \in HopLabels(L!V358, {2, 200}) }
LongLabels == HopLabels(L!V358, {7, 255}) \cup HopLabels(L!F8, {5})
MCHops == { <<s, l>> \in Schemes \X MCLabels : L!FormNum(l, s) # 0 }

\* Nodes in a row, all of one scheme or of two.  What a node's label for its neighbour is
\* like is a form, or the last one its scheme has, and a director.
Row == 1..4
Beside(n) == {n - 1, n + 1} \cap Row
Ends == { p \in Row \X Row : p[2] \in Beside(p[1]) }
RowSchemes == [Row -> {L!V358, L!V48}] \cup { [n \in Row |-> s] : s \in Schemes }
LabelKinds == {<<1, 1>>, <<2, 9>>, <<3, 9>>}
LabelAs(scheme, k) == HopLabel(scheme[IF k[1] > Len(scheme) THEN Len(scheme) ELSE k[1]], k[2])
RowLabels(scheme) ==
  { [n \in Row |-> [m \in Beside(n) |-> LabelAs(scheme[n], k[n, m])]] : k \in [Ends -> LabelKinds] }

MCForms == { L!Form(3, 1, 1), L!Form(5, 2, 2), L!Form(8, 2, 0), L!Form(31, 9, 257), L!Form(4, 0, 0),
             L!Form(4, 1, 0) }
MCSchemes == UNION { [1..n -> MCForms] : n \in 1..3 }

-----------------------------------------------------------------------------
RestingSamples == taken = <<>> /\ reported = 0 /\ state = <<>> /\ recent = 0 /\ decayed = 0
RestingRetain == RetainInit /\ ann = AnnAt(3, FALSE, <<>>)
RestingSearch == SearchInit /\ graph = <<>> /\ goal = "path" /\ from = 2

AInit ==
  \/ part = "samples" /\ Init /\ RestingRetain /\ RestingSearch /\ input = 0
  \/ part = "retain" /\ RetainInit /\ RestingSamples /\ RestingSearch /\ input = 0
  \/ part = "search" /\ SearchInit /\ RestingSamples /\ RestingRetain /\ input = 0
  \/ /\ RestingSamples /\ RestingRetain /\ RestingSearch
     /\ \/ CodecInit
        \/ part = "splice" /\ input \in UNION { [1..n -> MCLabels] : n \in 1..2 } \cup [1..3 -> LongLabels]
        \/ part = "hop" /\ input \in MCHops
        \/ part = "scheme" /\ input \in MCSchemes
        \/ part = "row" /\ \E s \in RowSchemes : \E l \in RowLabels(s) :
                               input = [scheme |-> s, links |-> L!Announced(l, s)]

ANext ==
  \/ part = "samples" /\ Next /\ UNCHANGED <<part, input, retainVars, searchVars>>
  \/ part = "retain" /\ RetainNext /\ UNCHANGED <<part, input, vars, searchVars>>
  \/ part = "search" /\ SearchNext /\ UNCHANGED <<part, input, vars, retainVars>>

ASpec == AInit /\ [][ANext]_<<part, input, vars, retainVars, searchVars>>

-----------------------------------------------------------------------------
\* splice joins paths.
SpliceJoins == part = "splice" => L!SpliceJoins(input)

\* unsplice and splice undo each other.
UnspliceUndoes == (part = "splice" /\ Len(input) = 2) => L!UnspliceUndoes(input[1], input[2])

\* A re-encoded label leads to the same peer, in whatever form it is asked for.
SameHop == part = "hop" => \A n \in 0..Len(input[1]) : L!SameHop(input[2], input[1], n)

\* A scheme comes back from the wire as it was.
SchemeReturns == part = "scheme" => C!Returns(input)

\* The label computed for a path leads along it.
LeadsThere ==
  part = "row" => \A old \in BOOLEAN : L!LeadsThere(input.links, input.scheme, <<1, 2, 3, 4>>, old)

\* The routing's loop computes what build_label builds.
AsBuilt == part = "row" => L!AsBuilt(input.links, input.scheme, <<1, 2, 3, 4>>)

-----------------------------------------------------------------------------
\* Labels are joined, taken apart and re-encoded without changing where they lead, and a scheme
\* comes back from the wire.  (splice.rs, encoding.rs)
LabelsKeepWay == SpliceJoins /\ UnspliceUndoes /\ SameHop /\ SchemeReturns

\* The label of a path leads along it in both ways of computing it.  (compute_routing_label)
LabelsLeadAlong == LeadsThere /\ AsBuilt
=============================================================================
