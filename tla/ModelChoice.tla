---------------------------- MODULE ModelChoice -----------------------------
(***************************************************************************)
(* Which model and which reasoning variant a loose reference of the caller *)
(* means (opencode/model-catalog.ts).                                      *)
(*                                                                         *)
(* The catalog is a set of routes [provider, id, name, words]: words are   *)
(* what the id, the name and the family contain of the words callers use;  *)
(* "" is no name.  Lower and Squeezed are what the program makes of case   *)
(* and of spaces, dashes and underscores; Words are the words of a         *)
(* reference, longer than a letter.  "" is no reference.                   *)
(***************************************************************************)
EXTENDS Integers, Sequences, FiniteSets, SequencesExt, Asks

CONSTANTS Lower, Squeezed, Words,
          Catalogs, Providers, References,      \* what is asked for
          Published, Variants                   \* variants of a model, and wanted

\* Names that differ in case only are squeezed alike.
VariantNamed == Variants \union (UNION {ToSet(p) : p \in Published}) \union {"default"}
ASSUME ChoiceAssumption ==
  /\ \A C \in Catalogs : IsFiniteSet(C)
  /\ \A r \in References : IsFiniteSet(Words[r])
  /\ \A p \in Published : p \in Seq(ToSet(p))
  /\ Lower["default"] = "default" /\ Squeezed["default"] = "default"
  /\ \A v, w \in VariantNamed : Lower[v] = Lower[w] => Squeezed[v] = Squeezed[w]

Single(S) == Cardinality(S) = 1
PreferredCandidate(routes, want) ==     \* a set of one, or none
  LET exact == {m \in routes : m.provider = want}
      alike == {m \in routes : Lower[m.provider] = Lower[want]}
      by(p) == {m \in routes : m.provider = p}
  IN IF want # "" /\ exact # {} THEN IF Single(exact) THEN exact ELSE {}
     ELSE IF want # "" /\ alike # {} THEN IF Single(alike) THEN alike ELSE {}
     ELSE IF Single(by("opencode-go")) THEN by("opencode-go")
     ELSE IF Single(by("opencode")) THEN by("opencode")
     ELSE IF Single(routes) THEN routes ELSE {}

\* The same model under the provider's own id: it has the name of one with that id.
FamilySibling(all, ref, want) ==
  LET names == {Lower[m.name] : m \in {m \in all : Lower[m.id] = Lower[ref] /\ m.name # ""}}
      routes == {m \in all : Lower[m.provider] = Lower[want] /\ m.name # "" /\ Lower[m.name] \in names}
  IN IF Single(routes) THEN routes ELSE {}
\* Mutant: the first of the best is as good as any.
AnyOfBest(all, ref, want) ==
  LET scored == {m \in all : Cardinality(Words[ref] \cap m.words) >= 2} IN
  IF scored = {} THEN {} ELSE {CHOOSE m \in scored : \A o \in scored : Cardinality(Words[ref] \cap o.words) <= Cardinality(Words[ref] \cap m.words)}
FuzzyFamily(all, ref, want) ==
  LET n == Cardinality(Words[ref])
      enough == IF (n + 1) \div 2 > 2 THEN (n + 1) \div 2 ELSE 2
      score(m) == Cardinality(Words[ref] \cap m.words)
      scored == {m \in all : (want = "" \/ Lower[m.provider] = Lower[want]) /\ score(m) >= enough}
  IN IF n < 2 THEN {} ELSE PreferredCandidate({m \in scored : \A o \in scored : score(o) <= score(m)}, want)

NoRoute == [model |-> {}, candidates |-> {}]
ResolveModel(all, want, ref) ==
  LET scope == {m \in all : want = "" \/ Lower[m.provider] = Lower[want]}
      exact == {m \in scope : m.id = ref}
      alike == {m \in scope : Lower[m.id] = Lower[ref]}
      named == {m \in scope : m.name # "" /\ Lower[m.name] = Lower[ref]}
      ranks == <<exact, alike, named>>
      found == {k \in 1..3 : PreferredCandidate(ranks[k], want) # {} \/ Cardinality(ranks[k]) > 1}
      first == ranks[Min(found)]
      chosen == PreferredCandidate(first, want)
      sibling == IF want = "" THEN {} ELSE FamilySibling(all, ref, want)
  IN IF ref = "" THEN NoRoute
     ELSE IF found # {} THEN [model |-> chosen, candidates |-> IF chosen = {} THEN first ELSE {}]
     ELSE [model |-> IF sibling # {} THEN sibling ELSE FuzzyFamily(all, ref, want), candidates |-> {}]

Aliases ==
  {<<"default", {"default", "base", "normal"}>>, <<"xhigh", {"xhigh", "extrahigh", "veryhigh"}>>, <<"max", {"max", "maximum"}>>,
   <<"high", {"high"}>>, <<"medium", {"medium", "med"}>>, <<"low", {"low"}>>, <<"minimal", {"minimal", "minimum"}>>, <<"none", {"none", "off"}>>}
ResolveVariant(published, wanted) ==    \* published is a sequence
  LET places == DOMAIN published
      exact == {i \in places : published[i] = wanted}
      alike == {i \in places : Lower[published[i]] = Lower[wanted]}
      direct == {i \in places : Squeezed[published[i]] = Squeezed[wanted]}
      canonical == {a[1] : a \in {a \in Aliases : Squeezed[wanted] \in a[2]}}
      aliased == {i \in places : Squeezed[published[i]] \in canonical}
      first(found) == {published[Min(found)]}
  IN IF Squeezed[wanted] \in {"base", "normal"} \/ Lower[wanted] = "default" THEN {"default"}
     ELSE IF exact # {} THEN first(exact) ELSE IF alike # {} THEN first(alike)
     ELSE IF Single(direct) THEN first(direct) ELSE IF Single(aliased) THEN first(aliased) ELSE {}

-----------------------------------------------------------------------------
ChoiceInit ==
  /\ result = {}
  /\ \/ ask \in {[is |-> "model", all |-> all, want |-> p, ref |-> r] : all \in Catalogs, p \in Providers, r \in References}
     \/ ask \in {[is |-> "variant", of |-> p, want |-> v] : p \in Published, v \in Variants}
ChoosesModel == ask.is = "model" /\ Answers(ResolveModel(ask.all, ask.want, ask.ref))
ChoosesVariant == ask.is = "variant" /\ Answers(ResolveVariant(ask.of, ask.want))
ChoiceNext == ChoosesModel \/ ChoosesVariant
ChoiceSpec == ChoiceInit /\ [][ChoiceNext]_asked

(* A reference is resolved only to what it can mean and never by a guess:  *)
(* the route is the wanted provider's; an exact id beats any other match,  *)
(* then an id alike, then a name; where several routes match equally well  *)
(* none is chosen, unless one alone is OpenCode's own; and a route that is *)
(* the only one with the id is never missed.  A variant is one of those    *)
(* published, and means what was asked for.  (model-catalog.ts:196-278)    *)
Rank(m, ref) == IF m.id = ref THEN 1 ELSE IF Lower[m.id] = Lower[ref] THEN 2 ELSE IF m.name # "" /\ Lower[m.name] = Lower[ref] THEN 3 ELSE 4
Score(m, ref) == Cardinality(Words[ref] \cap m.words)
Better(m, o, ref, all, want) ==         \* m is a better match than o
  \/ Rank(m, ref) < Rank(o, ref)
  \/ Rank(m, ref) = 4 /\ Rank(o, ref) = 4 /\ (m \in FamilySibling(all, ref, want) \/ Score(m, ref) > Score(o, ref))
  \/ m.provider = "opencode-go" /\ o.provider # "opencode-go"
  \/ m.provider = "opencode" /\ o.provider # m.provider
  \/ want # "" /\ m.provider = want /\ o.provider # want
ChosenNotGuessed ==
  \A r \in result :
    /\ ask.is = "model" =>
         LET rivals == {m \in ask.all : ask.want = "" \/ Lower[m.provider] = Lower[ask.want]}  ref == ask.ref IN
         /\ r.model \subseteq rivals /\ r.candidates \subseteq rivals
         /\ \A m \in r.model :
              /\ \A o \in rivals \ {m} : Rank(o, ref) >= Rank(m, ref) /\ Better(m, o, ref, ask.all, ask.want)
              /\ Rank(m, ref) = 4 => Score(m, ref) >= 2 \/ m \in FamilySibling(ask.all, ref, ask.want)
         /\ ref # "" /\ (\E m \in rivals : Rank(m, ref) < 4) => r.model # {} \/ Cardinality(r.candidates) > 1
    /\ ask.is = "variant" =>
         /\ r \subseteq ToSet(ask.of) \union {"default"}
         /\ \A v \in r : Squeezed[v] = Squeezed[ask.want] \/ \E a \in Aliases : {Squeezed[v], Squeezed[ask.want]} \subseteq a[2]
         /\ ask.want \in ToSet(ask.of) /\ Squeezed[ask.want] \notin {"base", "normal", "default"} => r = {ask.want}
=============================================================================
