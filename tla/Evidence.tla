------------------------------- MODULE Evidence -------------------------------
(***************************************************************************)
(* The path of the evidence through a run: search results become numbered    *)
(* sources (agents/searcher.py, providers/search.py), answers become claims  *)
(* that cite them (agents/analyst.py), the written report is scrubbed of      *)
(* citations that name none (services/citations.py), and everything is        *)
(* stored in one transaction (services/runs.py, _persist).  A source's ref    *)
(* "Sn" is its place n in sources; a claim's text stands for its dedupe key.  *)
(***************************************************************************)
EXTENDS Naturals, FiniteSets, Sequences, SequencesExt

CONSTANTS
  Queries,      \* plan.search_queries are 1 .. Queries
  Subquestions, \* plan.subquestions are 1 .. Subquestions
  Urls, Blocked, \* what a search may return, and what the egress policy blocks
  Domain, Column, \* of a url: its host, and what fits into sources.url
  DomainCap,    \* sources of one domain
  MaxResults,   \* bound: results of a search
  Texts, Blank, \* what a claim may say, or no text
  MaxItems,     \* claims taken from an answer
  MaxRef        \* bound: numbers cited

ASSUME ShapeAssumption ==
  /\ Queries \in Nat /\ Subquestions \in Nat
  /\ Blocked \subseteq Urls
  /\ DOMAIN Domain = Urls /\ DOMAIN Column = Urls
  /\ DomainCap \in Nat \ {0} /\ MaxResults \in Nat /\ MaxItems \in Nat /\ MaxRef \in Nat
  /\ Blank \notin Texts

VARIABLES
  stage,     \* search, extract, judge, write, store, completed or failed
  replied,   \* the searches, then the extractions, that have answered or failed
  results,   \* of each search, as the provider returned them
  sources,   \* the searcher's list of urls
  items,     \* of each sub-question, the claims of the model's answer
  claims,    \* the analyst's list
  listed,    \* what the debate hands on, rescored + refuted: <<list, place in claims>>
  usable,    \* the places of the supported or uncertain ones
  report,    \* what the body of the report cites
  rows       \* sources and claims stored

vars == <<stage, replied, results, sources, items, claims, listed, usable, report, rows>>

Numbers == 1 .. MaxRef
Refs == DOMAIN sources
Items == [text : Texts \cup {Blank}, refs : SUBSET Numbers]
NoText == [cites |-> {}, inner |-> 0, outer |-> 0, shell |-> 0]
NoRows == [sources |-> {}, claims |-> {}]

Init ==
  /\ stage = "search"
  /\ replied = {}
  /\ results = [k \in 1 .. Queries |-> <<>>]
  /\ sources = <<>>
  /\ items = [k \in 1 .. Subquestions |-> <<>>]
  /\ claims = <<>>
  /\ listed = {} /\ usable = {}
  /\ report = NoText
  /\ rows = NoRows

-----------------------------------------------------------------------------
(* The searcher.                                                           *)

(* Searches run concurrently and answer in any order, or fail.              *)
Search(k) ==
  /\ stage = "search" /\ k \notin replied
  /\ replied' = replied \cup {k}
  /\ \E found \in BoundedSeq(Urls, MaxResults) : results' = [results EXCEPT ![k] = found]
  /\ UNCHANGED <<stage, sources, items, claims, listed, usable, report, rows>>

(* _filter keeps the first of equal results that the policy lets pass.       *)
(* Fault: nothing is blocked.                                              *)
Keep(list, url) ==
  IF url \in ToSet(list) \/ url \in Blocked THEN list ELSE Append(list, url)
FilteredNever(found) == found
Filtered(found) == FoldLeft(Keep, <<>>, found)

(* A result joins the sources unless it is there or its domain is full.      *)
(* Fault: a domain may have one more.                                      *)
CollectOver(list, url) ==
  IF \/ url \in ToSet(list)
     \/ Cardinality({n \in DOMAIN list : Domain[list[n]] = Domain[url]}) > DomainCap
  THEN list ELSE Append(list, url)
Collect(list, url) ==
  IF \/ url \in ToSet(list)
     \/ Cardinality({n \in DOMAIN list : Domain[list[n]] = Domain[url]}) >= DomainCap
  THEN list ELSE Append(list, url)

(* When all have answered, the batches are merged in the order of the queries. *)
(* Without sources the analyst is through at once.                         *)
Merge ==
  /\ stage = "search" /\ replied = 1 .. Queries
  /\ sources' = FoldLeft(Collect, <<>>,
                         FlattenSeq([k \in 1 .. Queries |-> Filtered(results[k])]))
  /\ stage' = IF sources' = <<>> THEN "write" ELSE "extract"
  /\ replied' = {}
  /\ results' = [k \in 1 .. Queries |-> <<>>]
  /\ UNCHANGED <<items, claims, listed, usable, report, rows>>

-----------------------------------------------------------------------------
(* The analyst.                                                            *)

Extract(k) ==
  /\ stage = "extract" /\ k \notin replied
  /\ replied' = replied \cup {k}
  /\ \E answer \in BoundedSeq(Items, MaxItems) : items' = [items EXCEPT ![k] = answer]
  /\ UNCHANGED <<stage, results, sources, claims, listed, usable, report, rows>>

(* A claim keeps the refs that exist, and is dropped without text or refs.   *)
(* Fault: it keeps them all.                                               *)
CitedAsIs(item) == item
Cited(item) == [item EXCEPT !.refs = @ \cap Refs]

Bind(list, item) ==
  IF item.text = Blank \/ Cited(item).refs = {} THEN list ELSE Append(list, Cited(item))
Bound(answer) == FoldLeft(Bind, <<>>, answer)

(* _dedupe keeps the first claim of a text.  Fault: the last.               *)
NewestOf(list, item) ==
  Append(SelectSeq(list, LAMBDA other : other.text # item.text), item)
Dedupe(list, item) ==
  IF \E n \in DOMAIN list : list[n].text = item.text THEN list ELSE Append(list, item)

(* The claims of all answers, in the order of the sub-questions.             *)
Conclude ==
  /\ stage = "extract" /\ replied = 1 .. Subquestions
  /\ claims' = FoldLeft(Dedupe, <<>>,
                        FlattenSeq([k \in 1 .. Subquestions |-> Bound(items[k])]))
  /\ stage' = "judge"
  /\ replied' = {}
  /\ items' = [k \in 1 .. Subquestions |-> <<>>]
  /\ UNCHANGED <<results, sources, listed, usable, report, rows>>

(* What Pipeline shows in detail: verifier and debate may leave a claim out,  *)
(* and list one twice that the second judgement refutes: it is rescored, and  *)
(* its status is refuted afterwards.  Neither touches the refs.               *)
Handed(rescored, refuted) == ({"rescored"} \X rescored) \cup ({"refuted"} \X refuted)

Judge ==
  /\ stage = "judge"
  /\ \E rescored, refuted \in SUBSET (DOMAIN claims) :
       /\ listed' = Handed(rescored, refuted)
       /\ usable' = rescored \ refuted
  /\ stage' = "write"
  /\ UNCHANGED <<replied, results, sources, items, claims, report, rows>>

-----------------------------------------------------------------------------
(* The synthesizer.  The text it gets from the model cites numbers, and may    *)
(* wrap one marker, inner, in another, outer: "[S1[S9]2]" wraps S9 in S12.    *)

(* Deleting an inner marker leaves its outer one behind, the shell.           *)
Scrubbed(text) ==
  LET kept == (text.cites \cup {text.inner}) \cap Refs
  IN  [NoText EXCEPT !.cites = kept,
                     !.shell = IF text.inner \in {0} \cup Refs THEN 0 ELSE text.outer]

Write ==
  /\ stage = "write"
  /\ IF usable = {} THEN report' = NoText
     ELSE \E cites \in SUBSET Numbers, inner, outer \in 0 .. MaxRef :
            /\ inner = 0 <=> outer = 0
            /\ report' = Scrubbed([cites |-> cites, inner |-> inner,
                                   outer |-> outer, shell |-> 0])
  /\ stage' = "store"
  /\ UNCHANGED <<replied, results, sources, items, claims, listed, usable, rows>>

(* A stage that fails ends the run without evidence.                        *)
Abort ==
  /\ stage \in {"search", "extract", "judge", "write"}
  /\ stage' = "failed"
  /\ UNCHANGED <<replied, results, sources, items, claims, listed, usable, report, rows>>

-----------------------------------------------------------------------------
(* _persist adds a row for each source and each entry of the list.           *)

SourceRows == {[ref |-> n, url |-> Column[sources[n]]] : n \in Refs}
ClaimRows ==
  {[entry |-> e, text |-> claims[e[2]].text, refs |-> claims[e[2]].refs] : e \in listed}

(* uq_source_run_url: no two sources of a run have the same url.             *)
Unique == \A n, o \in Refs : Column[sources[n]] = Column[sources[o]] => n = o

(* Rows that are refused are rolled back with the whole transaction.  Fault: *)
(* the sources are committed first.                                        *)
RowsKept == [NoRows EXCEPT !.sources = SourceRows]
RowsRolledBack == NoRows

(* The transaction commits, or fails and the run with it; where only the       *)
(* acknowledgement of the commit is lost, the run fails with its rows stored.  *)
Persist ==
  /\ stage = "store"
  /\ \/ /\ Unique
        /\ rows' = [sources |-> SourceRows, claims |-> ClaimRows]
        /\ stage' \in {"completed", "failed"}
     \/ /\ rows' = RowsRolledBack
        /\ stage' = "failed"
  /\ UNCHANGED <<replied, results, sources, items, claims, listed, usable, report>>

Next ==
  \/ \E k \in 1 .. Queries : Search(k)
  \/ \E k \in 1 .. Subquestions : Extract(k)
  \/ Merge \/ Conclude \/ Judge \/ Write \/ Abort \/ Persist

Spec == Init /\ [][Next]_vars

-----------------------------------------------------------------------------
(* Every variable stays within its type.                                   *)
TypeOK ==
  /\ stage \in {"search", "extract", "judge", "write", "store", "completed", "failed"}
  /\ replied \subseteq (1 .. Queries) \cup (1 .. Subquestions)
  /\ results \in [1 .. Queries -> Seq(Urls)]
  /\ sources \in Seq(Urls \ Blocked)
  /\ items \in [1 .. Subquestions -> Seq(Items)]
  /\ claims \in Seq(Items)
  /\ listed \subseteq {"rescored", "refuted"} \X DOMAIN claims
  /\ usable \subseteq DOMAIN claims
  /\ report \in [cites : SUBSET Numbers, inner : 0 .. MaxRef,
                 outer : 0 .. MaxRef, shell : 0 .. MaxRef]
  /\ rows.sources \subseteq [ref : Nat, url : {Column[u] : u \in Urls}]
  /\ rows.claims \subseteq [entry : {"rescored", "refuted"} \X Nat,
                           text : Texts \cup {Blank}, refs : SUBSET Numbers]

(* The sources are what the results themselves determine, whatever the order  *)
(* of the answers: of the urls let pass, in the order of their first          *)
(* occurrence, the first DomainCap of each domain (searcher.run).            *)
FirstWins(list, found) ==
  LET first(u) == CHOOSE n \in DOMAIN found :
                    found[n] = u /\ \A o \in 1 .. n - 1 : found[o] # u
      passed == ToSet(found) \ Blocked
      before(u) == {v \in passed : first(v) < first(u)}
      rank(u) == Cardinality({v \in before(u) : Domain[v] = Domain[u]})
      chosen == {u \in passed : rank(u) < DomainCap}
  IN  /\ ToSet(list) = chosen
      /\ \A n \in DOMAIN list : Cardinality(before(list[n]) \cap chosen) = n - 1

MergeFirstWins == [][Merge => FirstWins(sources', FlattenSeq(results))]_vars

(* Of every text that an answer states with a source that exists there is one *)
(* claim, with the refs of its first such statement: neither an uncited copy  *)
(* nor a later one replaces it (analyst._extract, _dedupe).                  *)
FirstStatements(list, said) ==
  LET cited == {n \in DOMAIN said : said[n].text # Blank /\ said[n].refs \cap Refs # {}}
      firsts == {n \in cited : \A o \in cited : said[o].text = said[n].text => n <= o}
  IN  /\ Len(list) = Cardinality(firsts)
      /\ ToSet(list) = {[text |-> said[n].text, refs |-> said[n].refs \cap Refs] : n \in firsts}

CitedStatementsSurvive == [][Conclude => FirstStatements(claims', FlattenSeq(items))]_vars

(* In a completed run every ref of a claim it stored names exactly one stored  *)
(* source, and so does every marker of its report but one: the shell, which    *)
(* deleting a marker inside another has left (analyst, enforce_valid_refs).    *)
Named(n) == {row \in rows.sources : row.ref = n}

RefsResolve ==
  stage = "completed" =>
    /\ \A n \in report.cites \cup UNION {row.refs : row \in rows.claims} :
         Cardinality(Named(n)) = 1
    /\ \A row \in rows.claims : row.refs # {}

(* No marker of the report is left that names no source, as SECURITY.md says    *)
(* it: "any `[Sn]` marker that does not match a retrieved source is deleted     *)
(* before the report is stored".                                            *)
MarkersResolve ==
  stage = "completed" =>
    \A n \in report.cites \cup ({report.shell} \ {0}) : Named(n) # {}

(* A run is stored whole or not at all (_persist): as soon as it has a row,     *)
(* every source has one, and no two share their url; every claim the report     *)
(* may use has exactly one, a refuted one at most two, any other none.  A       *)
(* completed run is whole, and an unfinished one has nothing; a failed one has  *)
(* its rows only where the acknowledgement of the commit was lost.            *)
Whole ==
  LET copies(n) == Cardinality({row \in rows.claims : row.text = claims[n].text}) IN
  /\ \A n \in Refs : Named(n) = {[ref |-> n, url |-> Column[sources[n]]]}
  /\ Cardinality({row.url : row \in rows.sources}) = Len(sources)
  /\ \A n \in usable : copies(n) = 1
  /\ \A n \in DOMAIN claims :
       copies(n) <= 2 /\ (copies(n) > 0 <=> \E e \in listed : e[2] = n)

StoredWhole ==
  /\ stage \notin {"completed", "failed"} => rows = NoRows
  /\ stage = "completed" \/ rows # NoRows => Whole

=============================================================================
