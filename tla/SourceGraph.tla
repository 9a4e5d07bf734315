----------------------------- MODULE SourceGraph -----------------------------
(***************************************************************************)
(* The sources of a project and the citation edges between them: works are *)
(* imported and registered, citations discovered, endpoints resolved by a  *)
(* person or by an import, duplicates merged after a review of their plan. *)
(* Each request is one step here: how two that overlap interfere is not    *)
(* modelled.                                                               *)
(*                                                                         *)
(* All sources have one title and year, so that any two are duplicates     *)
(* unless their DOIs conflict.  DOIs and a provider's identifiers identify *)
(* works; the other fields of a source, its literature entry, excerpts and  *)
(* pins are left out: a merge moves or combines them.                      *)
(***************************************************************************)
EXTENDS Naturals, FiniteSets, SequencesExt

CONSTANTS
  Sources, Dois, Provided,   \* identifiers of rows, DOIs, identifiers of a provider
  MaxEdges,                  \* bound
  NodeLimits                 \* max_nodes of the requests

ASSUME GraphAssumptions ==
  /\ MaxEdges \in Nat /\ NodeLimits \subseteq Nat \ {0, 1}
  /\ Dois \cap Provided = {}

VARIABLES
  source,   \* the sources table
  edges,    \* the citation_edges table
  stray     \* history: an import was answered with a merged source

srcvars == <<source, edges, stray>>

Absent == "absent"
WorkKeys == Dois \cup Provided
Unresolved == "unresolved"
Endpoint == Sources \cup {Unresolved}

NoSource == [state |-> Absent, doi |-> Absent, provided |-> Absent]
Edge == [citing_key : WorkKeys, cited_key : WorkKeys, citing : Endpoint, cited : Endpoint,
         rejected : BOOLEAN, deleted : BOOLEAN]

TypeOKSources ==
  /\ source \in [Sources -> [state : {Absent, "live", "merged"}, doi : Dois \cup {Absent},
                            provided : Provided \cup {Absent}]]
  /\ edges \subseteq Edge /\ stray \in BOOLEAN

SourcesInit ==
  /\ source = [s \in Sources |-> NoSource] /\ edges = {} /\ stray = FALSE

-----------------------------------------------------------------------------
Live == {s \in Sources : source[s].state = "live"}
LiveEdges == {e \in edges : ~e.deleted}
StrongKeys(s) == {source[s].doi, source[s].provided} \ {Absent}

(* resolve_edges_for_source: s takes the open endpoints that name it.      *)
ResolvedBy(s, keys, table) ==
  {IF e.deleted THEN e
   ELSE [e EXCEPT !.citing = IF @ = Unresolved /\ e.citing_key \in keys THEN s ELSE @,
                  !.cited = IF @ = Unresolved /\ e.cited_key \in keys THEN s ELSE @] : e \in table}

RegisterSource(s) ==
  /\ source[s].state = Absent
  /\ \E doi \in Dois \cup {Absent} :
       source' = [source EXCEPT ![s] = [NoSource EXCEPT !.state = "live", !.doi = doi]]
  /\ UNCHANGED <<edges, stray>>

(* import_work: a known DOI gives back its source, a merged one too.       *)
ImportWork(s, doi, provided) ==
  LET known == {k \in Sources : doi # Absent /\ source[k].doi = doi} IN
  IF known # {}
  THEN /\ \E k \in known : /\ edges' = ResolvedBy(k, StrongKeys(k), edges)
                           /\ stray' = (stray \/ source[k].state = "merged")
       /\ UNCHANGED source
  ELSE /\ source[s].state = Absent
       /\ source' = [source EXCEPT ![s] = [state |-> "live", doi |-> doi, provided |-> provided]]
       /\ edges' = ResolvedBy(s, {doi, provided}, edges)
       /\ UNCHANGED stray

-----------------------------------------------------------------------------
Matching_AnySource(k) == {s \in Sources : k \in StrongKeys(s)}

Matching(k) == {s \in Live : k \in StrongKeys(s)}

Filled(e, citing, cited) ==
  [e EXCEPT !.citing = IF @ = Unresolved THEN citing ELSE @,
            !.cited = IF @ = Unresolved THEN cited ELSE @]

(* record_citations, of one work.  A pair of keys whose edge was deleted   *)
(* fails on the unique constraint.                                         *)
Discover(s, k, backward) ==
  LET a == source[s].doi IN
  /\ s \in Live /\ a # Absent /\ k # a
  /\ \E linked \in IF Matching(k) = {} THEN {Unresolved} ELSE Matching(k) :
       LET row == [citing_key |-> IF backward THEN a ELSE k, cited_key |-> IF backward THEN k ELSE a,
                   citing |-> IF backward THEN s ELSE linked, cited |-> IF backward THEN linked ELSE s,
                   rejected |-> FALSE, deleted |-> FALSE]
           same == {e \in edges : e.citing_key = row.citing_key /\ e.cited_key = row.cited_key} IN
       /\ \A e \in same : ~e.deleted
       /\ IF same = {}
          THEN Cardinality(edges) < MaxEdges /\ edges' = edges \cup {row}
          ELSE edges' = (edges \ same) \cup {Filled(e, row.citing, row.cited) : e \in same}
  /\ UNCHANGED <<source, stray>>

ResolveEdge(e, s, citing) ==
  LET mine == IF citing THEN e.citing ELSE e.cited
      other == IF citing THEN e.cited ELSE e.citing
      k == IF citing THEN e.citing_key ELSE e.cited_key IN
  /\ ~e.deleted /\ s \in Live /\ mine \in {Unresolved, s} /\ other # s /\ k \in StrongKeys(s)
  /\ edges' = (edges \ {e}) \cup {IF citing THEN [e EXCEPT !.citing = s] ELSE [e EXCEPT !.cited = s]}
  /\ UNCHANGED <<source, stray>>

ReviewEdge(e, rejected) ==
  /\ ~e.deleted /\ edges' = (edges \ {e}) \cup {[e EXCEPT !.rejected = rejected]}
  /\ UNCHANGED <<source, stray>>

-----------------------------------------------------------------------------
Duplicates(a, b) ==
  /\ a # b /\ {a, b} \subseteq Live
  /\ source[a].doi = source[b].doi \/ Absent \in {source[a].doi, source[b].doi}

(* repoint_source: an edge between the two becomes a self-edge, and goes.  *)
Repointed(a, b) ==
  {LET moved == [e EXCEPT !.citing = IF @ = b THEN a ELSE @, !.cited = IF @ = b THEN a ELSE @] IN
   IF e.deleted \/ b \notin {e.citing, e.cited} THEN e
   ELSE [moved EXCEPT !.deleted = moved.citing = moved.cited] : e \in edges}

(* The plan a person has reviewed covers both sources and is refused once  *)
(* either has changed: the review and the merge are one step.              *)
MergeSources(a, b) ==
  /\ Duplicates(a, b)
  /\ source' = [source EXCEPT ![b].state = "merged",
                              ![a].doi = IF @ = Absent THEN source[b].doi ELSE @]
  /\ edges' = Repointed(a, b)
  /\ UNCHANGED stray

SourcesNext ==
  \/ \E s \in Sources :
       \/ RegisterSource(s)
       \/ \E doi \in Dois \cup {Absent}, p \in Provided : ImportWork(s, doi, p)
       \/ \E k \in WorkKeys, backward \in BOOLEAN : Discover(s, k, backward)
       \/ \E e \in edges, citing \in BOOLEAN : ResolveEdge(e, s, citing)
  \/ \E e \in edges, rejected \in BOOLEAN : ReviewEdge(e, rejected)
  \/ \E a, b \in Sources : MergeSources(a, b)

SourcesSpec == SourcesInit /\ [][SourcesNext]_srcvars

-----------------------------------------------------------------------------
(* citation_graph: level by level from a root, over the edges in the order *)
(* they were read, until the nodes are too many.                           *)
EndsOf(e) == {<<e.citing, e.citing_key>>, <<e.cited, e.cited_key>>}
Known(e) == {end[1] : end \in {x \in EndsOf(e) : x[1] # Unresolved}}
Dangling(e) == {end[2] : end \in {x \in EndsOf(e) : x[1] = Unresolved}}

Room_ForKnown(g, e, limit) == Cardinality(g.seen \cup Known(e)) <= limit

Room(g, e, limit) ==
  Cardinality(g.seen \cup Known(e)) + Cardinality(g.open \cup Dangling(e)) <= limit

Include(g, e, limit) ==
  IF Known(e) \cap g.frontier = {} THEN g
  ELSE IF ~Room(g, e, limit) THEN [g EXCEPT !.truncated = TRUE]
  ELSE [g EXCEPT !.next = @ \cup (Known(e) \ g.seen), !.seen = @ \cup Known(e),
                 !.open = @ \cup Dangling(e)]

Deeper(g, order, limit) ==
  LET pass[n \in 0 .. Len(order)] ==
        IF n = 0 THEN [g EXCEPT !.next = {}] ELSE Include(pass[n - 1], order[n], limit)
      level == pass[Len(order)] IN
  [level EXCEPT !.frontier = level.next]

CitationGraph(root, depth, order, limit) ==
  LET walk[d \in 0 .. depth] ==
        IF d = 0 THEN [frontier |-> {root}, seen |-> {root}, next |-> {}, open |-> {},
                       truncated |-> FALSE]
        ELSE Deeper(walk[d - 1], order, limit) IN
  walk[depth]

Shown == {e \in LiveEdges : ~e.rejected}

-----------------------------------------------------------------------------
(* However sources are imported, merged and their edges discovered and     *)
(* resolved, an edge that counts names sources that count, as long as no   *)
(* import was answered with a merged source ("keep citation endpoints      *)
(* valid when the reviewed duplicate-source merge runs").                  *)
EndpointsLive == stray \/ \A e \in LiveEdges : Known(e) \subseteq Live

(* Whatever order the edges are read in, a graph shows no more nodes than  *)
(* were asked for, none that is further away than asked, and all of them   *)
(* unless it says that it was cut short.                                   *)
Near(root, depth) ==
  LET near[d \in 0 .. depth] ==
        IF d = 0 THEN {root}
        ELSE near[d - 1] \cup UNION {Known(e) : e \in {x \in Shown : Known(x) \cap near[d - 1] # {}}} IN
  near[depth]

GraphBounded ==
  \A root \in Live, depth \in 1 .. 2, limit \in NodeLimits, order \in SetToSeqs(Shown) :
    LET g == CitationGraph(root, depth, order, limit) IN
    /\ Cardinality(g.seen) + Cardinality(g.open) <= limit
    /\ g.seen \subseteq Near(root, depth)
    /\ ~g.truncated => /\ g.seen = Near(root, depth)
                       /\ g.open = UNION {Dangling(e) : e \in {x \in Shown :
                                            Known(x) \cap Near(root, depth - 1) # {}}}

(* What a graph shows is sound: ends that count, within what was asked.    *)
GraphSound == EndpointsLive /\ GraphBounded
=============================================================================
