------------------------------ MODULE Session_proof ------------------------------
(***************************************************************************)
(* Theorems about a conversation through the proxy, for every set of       *)
(* models, deployments, clients and answers and any number of messages.    *)
(***************************************************************************)
EXTENDS Session, SequenceFacts, FiniteSetTheorems

-----------------------------------------------------------------------------
(* Which model a name is for.                                              *)

\* The aliases a deployment may offer: the ones it publishes, and with automatic
\* discovery the encoding of any model.
Offered(d) ==
    Range(d.static) \cup (IF d.discovery = "auto" THEN Range(AutomaticAlias) ELSE {})

\* Globs name models.
LEMMA GlobsLeadToModels ==
    ASSUME NEW d \in Deployment
    PROVE  \A g \in DOMAIN d.globs : d.globs[g].model \in Model
<1>1. d.globs \in Seq(Glob)
  BY DEF Deployment
<1>2. \A S : \A s \in Seq(S) : \A i \in DOMAIN s : s[i] \in S
  OBVIOUS
<1>3. \A g \in DOMAIN d.globs : d.globs[g] \in Glob
  BY <1>1, <1>2
<1>. QED
  BY <1>3 DEF Glob

\* The first glob that matches is one of the globs.
LEMMA GlobModel ==
    ASSUME NEW d \in Deployment, NEW name, Globbed(d, name) # {}
    PROVE  \E g \in DOMAIN d.globs :
              d.globs[g].model = d.globs[CHOOSE h \in Globbed(d, name) :
                                            \A k \in Globbed(d, name) : h <= k].model
<1>1. Globbed(d, name) \subseteq Nat
  <2>1. d.globs \in Seq(Glob)
    BY DEF Deployment
  <2>. QED
    BY <2>1 DEF Globbed
<1>2. \E h \in Globbed(d, name) : \A k \in Globbed(d, name) : h <= k
  BY <1>1, LeastNumber
<1>3. (CHOOSE h \in Globbed(d, name) : \A k \in Globbed(d, name) : h <= k) \in Globbed(d, name)
  BY <1>2
<1>. QED
  BY <1>3 DEF Globbed

\* Where the model of a name comes from, in the order of Settings.map_model.
LEMMA MapModelCases ==
    ASSUME NEW d \in Deployment, NEW name
    PROVE  \/ d.override # Null /\ MapModel(d, name) = d.override
           \/ d.override = Null /\ name \in DOMAIN d.exact /\ MapModel(d, name) = d.exact[name]
           \/ \E g \in DOMAIN d.globs : MapModel(d, name) = d.globs[g].model
           \/ d.discovery = "auto" /\ MapModel(d, name) \in AutomaticModels(name)
           \/ /\ d.override = Null /\ name \notin DOMAIN d.exact /\ Globbed(d, name) = {}
              /\ ~(d.discovery = "auto" /\ AutomaticModels(name) # {}) /\ MapModel(d, name) = name
<1>1. CASE d.override # Null
  BY <1>1 DEF MapModel
<1>2. CASE d.override = Null /\ name \in DOMAIN d.exact
  BY <1>2 DEF MapModel
<1>3. CASE d.override = Null /\ name \notin DOMAIN d.exact /\ Globbed(d, name) # {}
  <2>1. MapModel(d, name) = d.globs[CHOOSE h \in Globbed(d, name) :
                                       \A k \in Globbed(d, name) : h <= k].model
    BY <1>3, Zenon DEF MapModel
  <2>. QED
    BY <1>3, <2>1, GlobModel
<1>4. CASE d.override = Null /\ name \notin DOMAIN d.exact /\ Globbed(d, name) = {}
  <2>1. MapModel(d, name) = IF d.discovery = "auto" /\ AutomaticModels(name) # {}
                            THEN CHOOSE m \in AutomaticModels(name) : TRUE ELSE name
    BY <1>4, Zenon DEF MapModel
  <2>. QED
    BY <1>4, <2>1
<1>. QED
  BY <1>1, <1>2, <1>3, <1>4

\* A name is mapped to a name, an offered one to a model: its own, or the one
\* the settings name for it.
LEMMA MapModelName ==
    ASSUME NEW d \in Deployment, NEW name \in Name
    PROVE  MapModel(d, name) \in Name
<1>1. d.override # Null => d.override \in Model
  BY DEF Deployment
<1>2. \A x \in DOMAIN d.exact : d.exact[x] \in Model
  BY DEF Deployment
<1>3. \A g \in DOMAIN d.globs : d.globs[g].model \in Model
  BY GlobsLeadToModels
<1>4. \A m \in AutomaticModels(name) : m \in Model
  BY DEF AutomaticModels
<1>. QED
  BY <1>1, <1>2, <1>3, <1>4, MapModelCases DEF Name

\* Where an offered name leads.
Leads(d, name, model) ==
    /\ model \in Model
    /\ \/ AutomaticAlias[model] = name
       \/ model \in {d.override, d.extra}
       \/ model \in Range(d.exact)
       \/ \E g \in DOMAIN d.globs : model = d.globs[g].model

LEMMA OfferedModel ==
    ASSUME NEW d \in Deployment, Valid(d), NEW name \in Offered(d)
    PROVE  Leads(d, name, MapModel(d, name))
<1>1. d.override # Null => d.override \in Model
  BY DEF Deployment
<1>2. \A x \in DOMAIN d.exact : d.exact[x] \in Model /\ d.exact[x] \in Range(d.exact)
  BY DEF Deployment, Range
<1>3. \A g \in DOMAIN d.globs : d.globs[g].model \in Model
  BY GlobsLeadToModels
<1>4. \A m \in AutomaticModels(name) : m \in Model /\ AutomaticAlias[m] = name
  BY DEF AutomaticModels
<1>5. \/ d.override # Null \/ name \in DOMAIN d.exact \/ Globbed(d, name) # {}
      \/ d.discovery = "auto" /\ AutomaticModels(name) # {}
  <2>1. CASE name \in Range(d.static)
    <3>1. PICK i \in DOMAIN d.static : d.static[i] = name
      BY <2>1 DEF Range
    <3>. QED
      BY <3>1 DEF Valid
  <2>2. CASE d.discovery = "auto" /\ name \in Range(AutomaticAlias)
    <3>1. PICK m \in Model : AutomaticAlias[m] = name
      BY <2>2, RoutingAssumption DEF Range
    <3>. QED
      BY <2>2, <3>1 DEF AutomaticModels
  <2>. QED
    BY <2>1, <2>2 DEF Offered
<1>. QED
  BY <1>1, <1>2, <1>3, <1>4, <1>5, MapModelCases DEF Leads

LEMMA OfferedUpstream ==
    ASSUME NEW d \in Deployment, Valid(d), d.protocol # "anthropic", NEW name \in Offered(d)
    PROVE  Leads(d, name, UpstreamModel(d, name))
<1>1. Leads(d, name, MapModel(d, name))
  BY OfferedModel
<1>2. d.extra # Null => Leads(d, name, d.extra)
  BY DEF Leads, Deployment
<1>3. \/ UpstreamModel(d, name) = MapModel(d, name)
      \/ d.extra # Null /\ UpstreamModel(d, name) = d.extra
  BY DEF UpstreamModel
<1>. QED
  BY <1>1, <1>2, <1>3

-----------------------------------------------------------------------------
(* The pages a client reads hold offered names.                            *)

\* A function on 1..n with sequences for values is a sequence of sequences.
LEMMA PartsSeq ==
    ASSUME NEW S, NEW n \in Nat, NEW f, f = [j \in 1..n |-> f[j]], \A j \in 1..n : f[j] \in Seq(S)
    PROVE  f \in Seq(Seq(S)) /\ Len(f) = n
OBVIOUS

\* The first of equal entries are entries.
LEMMA FirstOfEachType ==
    ASSUME NEW S, NEW s \in Seq(S)
    PROVE  FirstOfEach(s) \in Seq(S)
<1>1. PICK f : f = [i \in DOMAIN s |->
                      IF \E j \in 1..(i - 1) : s[j] = s[i] THEN <<>> ELSE <<s[i]>>]
  OBVIOUS
<1>2. PICK n \in Nat : n = Len(s) /\ DOMAIN s = 1..n
  OBVIOUS
<1>3. f = [i \in 1..n |-> f[i]] /\ \A i \in 1..n : f[i] \in Seq(S)
  <2>1. \A e \in S : <<e>> \in Seq(S)
    OBVIOUS
  <2>2. <<>> \in Seq(S) /\ \A i \in 1..n : s[i] \in S
    BY <1>2
  <2>. QED
    BY <1>1, <1>2, <2>1, <2>2
<1>4. f \in Seq(Seq(S))
  BY <1>3, PartsSeq
<1>. QED
  BY <1>1, <1>4, FlattenType DEF FirstOfEach

LEMMA ModelListType ==
    ASSUME NEW d \in Deployment, d.discovery = "auto", NEW list \in Seq(Model)
    PROVE  ModelList(d, list) \in Seq(Offered(d))
<1>1. PICK f : f = [i \in DOMAIN list |->
                      IF list[i] \in d.listed THEN <<AutomaticAlias[list[i]]>> ELSE <<>>]
  OBVIOUS
<1>2. PICK n \in Nat : n = Len(list) /\ DOMAIN list = 1..n
  OBVIOUS
<1>3. f = [i \in 1..n |-> f[i]] /\ \A i \in 1..n : f[i] \in Seq(Offered(d))
  <2>1. \A e \in Offered(d) : <<e>> \in Seq(Offered(d))
    OBVIOUS
  <2>2. <<>> \in Seq(Offered(d))
    OBVIOUS
  <2>3. \A i \in 1..n : AutomaticAlias[list[i]] \in Offered(d)
    <3>1. \A m \in Model : AutomaticAlias[m] \in Offered(d)
      BY RoutingAssumption DEF Offered, Range
    <3>2. \A i \in 1..n : list[i] \in Model
      BY <1>2
    <3>. QED
      BY <3>1, <3>2
  <2>. QED
    BY <1>1, <1>2, <2>1, <2>2, <2>3
<1>4. f \in Seq(Seq(Offered(d)))
  BY <1>3, PartsSeq
<1>5. FlattenSeq(f) \in Seq(Offered(d))
  BY <1>4, FlattenType
<1>6. d.static \in Seq(Offered(d))
  <2>1. d.static \in Seq(Alias)
    BY DEF Deployment
  <2>2. \A i \in DOMAIN d.static : d.static[i] \in Offered(d)
    BY DEF Offered, Range
  <2>. QED
    BY <2>1, <2>2
<1>7. d.static \o FlattenSeq(f) \in Seq(Offered(d))
  <2>1. \A S : \A s, t \in Seq(S) : s \o t \in Seq(S)
    OBVIOUS
  <2>. QED
    BY <1>5, <1>6, <2>1
<1>. QED
  BY <1>1, <1>7, FirstOfEachType DEF ModelList

\* The smaller of two numbers.
LEMMA MinOfTwo ==
    ASSUME NEW a \in Int, NEW b \in Int
    PROVE  Min({a, b}) = IF a <= b THEN a ELSE b
BY SMTT(30) DEF Min

LEMMA MaxOfTwo ==
    ASSUME NEW a \in Int, NEW b \in Int
    PROVE  Max({a, b}) = IF a <= b THEN b ELSE a
BY SMTT(30) DEF Max

\* A stretch of a sequence.
LEMMA StretchType ==
    ASSUME NEW S, NEW s \in Seq(S), NEW a \in Nat, NEW b \in Int, b <= Len(s)
    PROVE  SubSeq(s, a + 1, b) \in Seq(S)
OBVIOUS

LEMMA PageType ==
    ASSUME NEW S, NEW ids \in Seq(S), NEW at, NEW limit \in Nat
    PROVE  /\ PageAfter(ids, at, limit) # Null => PageAfter(ids, at, limit).data \in Seq(S)
           /\ PageBefore(ids, at, limit) # Null => PageBefore(ids, at, limit).data \in Seq(S)
<1>0. Len(ids) \in Nat /\ DOMAIN ids = 1..Len(ids)
  OBVIOUS
<1>1. at \in Range(ids) => IndexOf(ids, at) \in 1..Len(ids)
  BY <1>0 DEF IndexOf, Range
<1>2. PageAfter(ids, at, limit) # Null => PageAfter(ids, at, limit).data \in Seq(S)
  <2>. SUFFICES ASSUME PageAfter(ids, at, limit) # Null
                PROVE  PageAfter(ids, at, limit).data \in Seq(S)
    OBVIOUS
  <2>1. at = Null \/ at \in Range(ids)
    BY DEF PageAfter
  <2>2. PICK start \in Nat : start = IF at = Null THEN 0 ELSE IndexOf(ids, at)
    BY <1>1, <2>1
  <2>3. PICK end \in Int : end = Min({Len(ids), start + limit}) /\ end <= Len(ids)
    <3>1. start + limit \in Int
      OBVIOUS
    <3>. QED
      BY <1>0, <3>1, MinOfTwo
  <2>4. PageAfter(ids, at, limit).data = SubSeq(ids, start + 1, end)
    BY <2>1, <2>2, <2>3 DEF PageAfter
  <2>. QED
    BY <2>3, <2>4, StretchType
<1>3. PageBefore(ids, at, limit) # Null => PageBefore(ids, at, limit).data \in Seq(S)
  <2>. SUFFICES ASSUME PageBefore(ids, at, limit) # Null
                PROVE  PageBefore(ids, at, limit).data \in Seq(S)
    OBVIOUS
  <2>1. at \in Range(ids)
    BY DEF PageBefore
  <2>2. PICK end \in Int : end = IndexOf(ids, at) - 1 /\ end <= Len(ids)
    BY <1>0, <1>1, <2>1
  <2>3. PICK start \in Nat : start = Max({0, end - limit})
    <3>1. end - limit \in Int
      OBVIOUS
    <3>. QED
      BY <3>1, MaxOfTwo
  <2>4. PageBefore(ids, at, limit).data = SubSeq(ids, start + 1, end)
    BY <2>1, <2>2, <2>3 DEF PageBefore
  <2>. QED
    BY <2>2, <2>4, StretchType
<1>. QED
  BY <1>2, <1>3

\* What the client has seen of the list was offered by the deployment.
PagesInv ==
    /\ deployment \in Deployments /\ catalog \in Catalogs
    /\ seen \in Seq(Offered(deployment))

LEMMA DeploymentFacts ==
    ASSUME NEW d \in Deployments
    PROVE  d \in Deployment /\ Valid(d)
BY SessionAssumption

LEMMA PublishedType ==
    ASSUME PagesInv
    PROVE  Published \in Seq(Offered(deployment))
<1>1. deployment \in Deployment /\ catalog \in Seq(Model)
  BY DeploymentFacts, PagesAssumption DEF PagesInv
<1>2. CASE deployment.discovery = "auto"
  BY <1>1, <1>2, ModelListType DEF Published
<1>3. CASE deployment.discovery # "auto"
  <2>1. deployment.static \in Seq(Alias)
    BY <1>1 DEF Deployment
  <2>2. \A i \in DOMAIN deployment.static : deployment.static[i] \in Offered(deployment)
    BY DEF Offered, Range
  <2>3. deployment.static \in Seq(Offered(deployment))
    BY <2>1, <2>2
  <2>. QED
    BY <1>3, <2>3 DEF Published
<1>. QED
  BY <1>2, <1>3

LEMMA PagesStep ==
    ASSUME PagesInv, PagesNext
    PROVE  PagesInv'
<1>0. PICK S : S = Offered(deployment)
  OBVIOUS
<1>1. CASE StartWalk
  <2>1. seen' = <<>> /\ UNCHANGED <<deployment, catalog>>
    BY <1>1 DEF StartWalk
  <2>2. <<>> \in Seq(S)
    OBVIOUS
  <2>. QED
    BY <1>0, <2>1, <2>2 DEF PagesInv
<1>2. ASSUME NEW limit \in Limits, ReadPage(limit) PROVE PagesInv'
  <2>1. PICK page : /\ page = PageAt(limit) /\ page # Null
                    /\ seen' = IF way = "after" THEN seen \o page.data ELSE page.data \o seen
    BY <1>2 DEF ReadPage
  <2>2. page.data \in Seq(S)
    <3>1. Published \in Seq(S) /\ limit \in Nat
      BY <1>0, PublishedType, PagesAssumption
    <3>2. page = PageAfter(Published, cursor, limit) \/ page = PageBefore(Published, cursor, limit)
      BY <2>1 DEF PageAt
    <3>. QED
      BY <2>1, <3>1, <3>2, PageType
  <2>3. \A s, t \in Seq(S) : s \o t \in Seq(S)
    OBVIOUS
  <2>4. seen' \in Seq(S)
    BY <1>0, <2>1, <2>2, <2>3 DEF PagesInv
  <2>. QED
    BY <1>0, <1>2, <2>4 DEF PagesInv, ReadPage
<1>3. CASE CursorRejected
  BY <1>3 DEF CursorRejected, PagesInv
<1>4. CASE Rebuild
  BY <1>4 DEF Rebuild, PagesInv
<1>. QED
  BY <1>1, <1>2, <1>3, <1>4 DEF PagesNext

-----------------------------------------------------------------------------
(* Requests go where the list said.                                        *)

\* The strengthening: nothing is seen of the list but while choosing, a name is
\* listed only under the deployment that offered it, and the pending request
\* keeps the deployment it was sent under.
RoutedInv ==
    /\ PagesInv
    /\ stage # "choosing" => seen = <<>> /\ requested \in Name
    /\ listed => requested \in Offered(deployment)
    /\ sent # Null =>
          /\ sent.under \in Deployments /\ sent.model = UpstreamModel(sent.under, requested)
          /\ sent.listed => requested \in Offered(sent.under)
          /\ stage = "waiting"

LEMMA RoutedStep ==
    ASSUME RoutedInv, [SessionNext]_sessionVars
    PROVE  RoutedInv'
<1>0. PagesInv
  BY DEF RoutedInv
<1>1. CASE Browse
  BY <1>0, <1>1, PagesStep DEF Browse, talkVars, RoutedInv, PagesNext, StartWalk, ReadPage, CursorRejected, Rebuild
<1>2. CASE AnyAnswer
  <2>1. PICK kinds, named, streamed : Answer(kinds, named, streamed)
    BY <1>2, Zenon DEF AnyAnswer
  <2>. QED
    BY <2>1 DEF Answer, RoutedInv, PagesInv, pagesVars, walkVars
<1>3. CASE Redeploy
  <2>1. seen' = <<>>
    BY <1>3 DEF Redeploy, RoutedInv, walkVars
  <2>2. PICK S : S = Offered(deployment')
    OBVIOUS
  <2>3. seen' \in Seq(S)
    BY <2>1
  <2>4. PagesInv'
    BY <1>0, <1>3, <2>2, <2>3 DEF Redeploy, PagesInv
  <2>. QED
    BY <1>3, <2>1, <2>4 DEF Redeploy, RoutedInv
<1>4. ASSUME NEW name \in Name, Choose(name) PROVE RoutedInv'
  <2>1. /\ seen' = <<>> /\ deployment' = deployment /\ requested' = name
        /\ listed' = (name \in Range(seen)) /\ stage' = "composing" /\ sent' = sent
        /\ stage = "choosing"
    BY <1>4 DEF Choose
  <2>2. catalog' \in Catalogs
    <3>1. catalog \in Catalogs
      BY <1>0 DEF PagesInv
    <3>2. catalog' = CHOOSE c \in Catalogs : TRUE
      BY <1>4 DEF Choose
    <3>. QED
      BY <3>1, <3>2
  <2>3. PICK S : S = Offered(deployment)
    OBVIOUS
  <2>4. seen' \in Seq(S)
    BY <2>1
  <2>5. listed' => name \in S
    <3>1. seen \in Seq(S)
      BY <1>0, <2>3 DEF PagesInv
    <3>2. \A s \in Seq(S) : \A i \in DOMAIN s : s[i] \in S
      OBVIOUS
    <3>. QED
      BY <2>1, <3>1, <3>2 DEF Range
  <2>6. PagesInv'
    BY <1>0, <2>1, <2>2, <2>3, <2>4 DEF PagesInv
  <2>7. sent' = Null
    BY <2>1 DEF RoutedInv
  <2>. QED
    BY <2>1, <2>3, <2>5, <2>6, <2>7 DEF RoutedInv
<1>5. ASSUME NEW prompt, Submit(prompt) PROVE RoutedInv'
  <2>1. UNCHANGED <<pagesVars, requested, listed>> /\ stage = "composing"
    BY <1>5 DEF Submit
  <2>2. \/ stage' = "rejected" /\ sent' = Null
        \/ \E backend, items :
              /\ stage' = "waiting"
              /\ sent' = [under |-> deployment, listed |-> listed, backend |-> backend,
                          model |-> UpstreamModel(deployment, requested), items |-> items]
    BY <1>5, Zenon DEF Submit
  <2>3. PagesInv'
    BY <1>0, <2>1 DEF PagesInv, pagesVars, walkVars
  <2>. QED
    BY <1>0, <2>1, <2>2, <2>3 DEF RoutedInv, PagesInv, pagesVars, walkVars
<1>6. CASE UNCHANGED sessionVars
  BY <1>6 DEF sessionVars, pagesVars, walkVars, talkVars, RoutedInv, PagesInv
<1>. QED
  BY <1>1, <1>2, <1>3, <1>4, <1>5, <1>6 DEF SessionNext

LEMMA SessionRouted == SessionSpec => []RoutedInv
<1>1. ASSUME SessionInit PROVE RoutedInv
  <2>1. PICK S : S = Offered(deployment)
    OBVIOUS
  <2>2. <<>> \in Seq(S)
    OBVIOUS
  <2>. QED
    BY <1>1, <2>1, <2>2 DEF SessionInit, PagesInit, RoutedInv, PagesInv
<1>. QED
  BY <1>1, RoutedStep, PTL DEF SessionSpec

\* A name the client took from the list leads to the model the list meant, under
\* the settings of the process that took the request, however the catalog changed
\* between the pages and however often the proxy was replaced: the automatic alias
\* is decoded, unless configured names override it, and never sent as it is.
THEOREM ListedNamesLead == SessionSpec => []RoutedAsListed
<1>1. RoutedInv => RoutedAsListed
  <2>. SUFFICES ASSUME RoutedInv, sent # Null, sent.listed, sent.under.protocol # "anthropic"
                PROVE  RoutedAsListed
    BY DEF RoutedAsListed
  <2>1. PICK d \in Deployments : d = sent.under
    BY DEF RoutedInv
  <2>2. Leads(d, requested, sent.model)
    BY <2>1, DeploymentFacts, OfferedUpstream DEF RoutedInv
  <2>. QED
    BY <2>1, <2>2 DEF RoutedAsListed, Leads
<1>. QED
  BY <1>1, SessionRouted, PTL

-----------------------------------------------------------------------------
(* No model is skipped.                                                    *)

\* No entry of a sequence is repeated.
Distinct(s) == \A i, j \in 1..Len(s) : s[i] = s[j] => i = j

\* The first of equal entries: each entry once, in the order they first come in.
LEMMA FirstOfEachFacts ==
    ASSUME NEW S, NEW s \in Seq(S)
    PROVE  /\ FirstOfEach(s) \in Seq(S) /\ Distinct(FirstOfEach(s))
           /\ \A x : IsIn(x, FirstOfEach(s)) <=> IsIn(x, s)
           /\ \A x, y : Sooner(s, x, y) => Sooner(FirstOfEach(s), x, y)
<1>1. PICK f : f = [i \in DOMAIN s |->
                      IF \E j \in 1..(i - 1) : s[j] = s[i] THEN <<>> ELSE <<s[i]>>]
  OBVIOUS
<1>2. PICK n \in Nat : n = Len(s) /\ DOMAIN s = 1..n /\ \A i \in 1..n : s[i] \in S
  OBVIOUS
<1>3. \A e \in S : <<e>> \in Seq(S) /\ Len(<<e>>) = 1 /\ <<e>>[1] = e
  OBVIOUS
<1>4. <<>> \in Seq(S) /\ Len(<<>>) = 0
  OBVIOUS
<1>. DEFINE First(i) == \A j \in 1..(i - 1) : s[j] # s[i]
<1>5. \A i \in 1..n : (First(i) => f[i] = <<s[i]>>) /\ (~First(i) => f[i] = <<>>)
  BY <1>1, <1>2
<1>6. f \in Seq(Seq(S)) /\ Len(f) = n
  <2>1. f = [i \in 1..n |-> f[i]]
    BY <1>1, <1>2
  <2>2. \A i \in 1..n : f[i] \in Seq(S)
    <3>. HIDE DEF First
    <3>. QED
      BY <1>2, <1>3, <1>4, <1>5
  <2>. QED
    BY <2>1, <2>2, PartsSeq
<1>7. \A i \in 1..n : \A x : IsIn(x, f[i]) <=> First(i) /\ s[i] = x
  <2>. HIDE DEF First
  <2>. SUFFICES ASSUME NEW i \in 1..n, NEW x PROVE IsIn(x, f[i]) <=> First(i) /\ s[i] = x
    OBVIOUS
  <2>1. CASE First(i)
    <3>1. Len(f[i]) = 1 /\ f[i][1] = s[i]
      BY <1>2, <1>3, <1>5, <2>1
    <3>. QED
      BY <2>1, <3>1 DEF IsIn
  <2>2. CASE ~First(i)
    <3>1. Len(f[i]) = 0
      BY <1>4, <1>5, <2>2
    <3>. QED
      BY <2>2, <3>1 DEF IsIn
  <2>. QED
    BY <2>1, <2>2
<1>8. \A i \in 1..n : \E k \in 1..i : First(k) /\ s[k] = s[i]
  <2>. SUFFICES ASSUME NEW i \in 1..n PROVE \E k \in 1..i : First(k) /\ s[k] = s[i]
    OBVIOUS
  <2>1. PICK T : T = {k \in 1..i : s[k] = s[i]}
    OBVIOUS
  <2>2. T \in SUBSET Nat /\ T # {}
    BY <2>1
  <2>3. PICK k \in T : \A j \in T : k <= j
    BY <2>2, LeastNumber
  <2>4. k \in 1..i /\ s[k] = s[i]
    BY <2>1
  <2>5. First(k)
    <3>. SUFFICES ASSUME NEW j \in 1..(k - 1), s[j] = s[k] PROVE FALSE
      OBVIOUS
    <3>1. j \in T
      BY <2>1, <2>4
    <3>2. k <= j
      BY <2>3, <3>1
    <3>. QED
      BY <2>4, <3>2
  <2>. QED
    BY <2>4, <2>5
<1>9. FirstOfEach(s) = FlattenSeq(f)
  BY <1>1 DEF FirstOfEach
<1>10. PICK t \in Seq(S) : t = FlattenSeq(f)
  BY <1>6, FlattenType
<1>. HIDE DEF First
<1>11. \A x : IsIn(x, t) <=> IsIn(x, s)
  <2>. SUFFICES ASSUME NEW x PROVE IsIn(x, t) <=> IsIn(x, s)
    OBVIOUS
  <2>1. IsIn(x, t) <=> \E i \in 1..n : IsIn(x, f[i])
    BY <1>6, <1>10, InFlattened
  <2>2. IsIn(x, t) <=> \E i \in 1..n : First(i) /\ s[i] = x
    BY <1>7, <2>1
  <2>3. ASSUME IsIn(x, s) PROVE \E i \in 1..n : First(i) /\ s[i] = x
    <3>1. PICK i \in 1..n : s[i] = x
      BY <1>2, <2>3 DEF IsIn
    <3>2. PICK k \in 1..i : First(k) /\ s[k] = s[i]
      BY <1>8
    <3>. QED
      BY <3>1, <3>2
  <2>. QED
    BY <1>2, <2>2, <2>3 DEF IsIn
<1>12. Distinct(t)
  <2>1. PICK R : R = {p \in S \X S : p[1] # p[2]}
    OBVIOUS
  <2>2. \A k \in 1..Len(f) : InOrder(f[k], R)
    <3>. SUFFICES ASSUME NEW k \in 1..Len(f) PROVE InOrder(f[k], R)
      OBVIOUS
    <3>1. Len(f[k]) \in {0, 1}
      BY <1>2, <1>3, <1>4, <1>5, <1>6
    <3>. QED
      BY <3>1 DEF InOrder
  <2>3. \A k, l \in 1..Len(f) : k < l => OneThenOther(f[k], f[l], R)
    <3>. SUFFICES ASSUME NEW k \in 1..Len(f), NEW l \in 1..Len(f), k < l,
                         NEW i \in 1..Len(f[k]), NEW j \in 1..Len(f[l])
                  PROVE  <<f[k][i], f[l][j]>> \in R
      BY DEF OneThenOther
    <3>1. PICK x, y : x = f[k][i] /\ y = f[l][j]
      OBVIOUS
    <3>2. IsIn(x, f[k]) /\ IsIn(y, f[l])
      BY <3>1 DEF IsIn
    <3>3. s[k] = x /\ s[l] = y /\ First(l)
      BY <1>6, <1>7, <3>2
    <3>4. k \in 1..(l - 1)
      BY <1>6
    <3>5. x # y /\ x \in S /\ y \in S
      BY <1>2, <1>6, <3>3, <3>4 DEF First
    <3>. QED
      BY <2>1, <3>1, <3>5
  <2>4. InOrder(t, R)
    BY <1>6, <1>10, <2>2, <2>3, OrderOfFlattened
  <2>5. \A i, j \in 1..Len(t) : i < j => t[i] # t[j]
    BY <2>1, <2>4 DEF InOrder
  <2>6. \A i, j \in 1..Len(t) : i < j \/ j < i \/ i = j
    OBVIOUS
  <2>. QED
    BY <2>5, <2>6 DEF Distinct
<1>13. \A x, y : Sooner(s, x, y) => Sooner(t, x, y)
  <2>. SUFFICES ASSUME NEW x, NEW y, Sooner(s, x, y) PROVE Sooner(t, x, y)
    OBVIOUS
  <2>1. PICK i \in 1..n : s[i] = x /\ \A j \in 1..i : s[j] # y
    BY <1>2 DEF Sooner
  <2>2. PICK k \in 1..i : First(k) /\ s[k] = x
    BY <1>8, <2>1
  <2>3. k \in 1..Len(f) /\ \A h \in 1..k : h \in 1..n /\ h \in 1..i
    BY <1>6
  <2>4. IsIn(x, f[k])
    BY <1>6, <1>7, <2>2, <2>3
  <2>5. \A h \in 1..k : ~IsIn(y, f[h])
    BY <1>7, <2>1, <2>3
  <2>. QED
    BY <1>6, <1>10, <2>3, <2>4, <2>5, SoonerOfFlattened
<1>. QED
  BY <1>9, <1>10, <1>11, <1>12, <1>13

\* What the two catalogs have in common is in the same order in both.
LEMMA CatalogOrder ==
    ASSUME NEW old \in Catalogs, NEW new \in Catalogs, NEW x, NEW y, x # y,
           IsIn(x, new), IsIn(y, new), IsIn(y, old), Sooner(old, x, y)
    PROVE  Sooner(new, x, y)
<1>. SUFFICES ASSUME ~Sooner(new, x, y) PROVE FALSE
  OBVIOUS
<1>1. old \in Seq(Model) /\ new \in Seq(Model)
  BY PagesAssumption
<1>2. Sooner(new, y, x)
  <2>1. Len(new) \in Nat
    BY <1>1
  <2>. QED
    BY <2>1, SoonerOneOf
<1>3. PICK o \in Seq(Model) : /\ o = FirstOfEach(old) /\ Sooner(o, x, y) /\ IsIn(y, o)
  BY <1>1, FirstOfEachFacts
<1>4. PICK n \in Seq(Model) : /\ n = FirstOfEach(new) /\ Sooner(n, y, x) /\ IsIn(x, n)
  BY <1>1, <1>2, FirstOfEachFacts
<1>5. PICK i \in 1..Len(o) : o[i] = x /\ \A h \in 1..i : o[h] # y
  BY <1>3 DEF Sooner
<1>6. PICK j \in 1..Len(o) : o[j] = y
  BY <1>3 DEF IsIn
<1>7. PICK l \in 1..Len(n) : n[l] = y /\ \A h \in 1..l : n[h] # x
  BY <1>4 DEF Sooner
<1>8. PICK k \in 1..Len(n) : n[k] = x
  BY <1>4 DEF IsIn
<1>9. i < j /\ ~(k < l)
  BY <1>5, <1>6, <1>7, <1>8
<1>10. SameOrder(old, new)
  BY PagesAssumption
<1>11. DOMAIN o = 1..Len(o) /\ DOMAIN n = 1..Len(n)
  OBVIOUS
<1>. QED
  BY <1>3, <1>4, <1>5, <1>6, <1>7, <1>8, <1>9, <1>10, <1>11 DEF SameOrder

\* What is in a list of automatic discovery, and in which order.
LEMMA AutomaticList ==
    ASSUME NEW d \in Deployment, NEW c \in Seq(Model)
    PROVE  /\ ModelList(d, c) \in Seq(Alias) /\ Distinct(ModelList(d, c))
           /\ \A x : IsIn(x, ModelList(d, c)) <=>
                 \/ IsIn(x, d.static)
                 \/ \E m \in d.listed : IsIn(m, c) /\ x = AutomaticAlias[m]
           /\ \A x, y : Sooner(d.static, x, y) => Sooner(ModelList(d, c), x, y)
           /\ \A x, y : IsIn(x, d.static) /\ ~IsIn(y, d.static) => Sooner(ModelList(d, c), x, y)
           /\ \A m \in d.listed : \A n \in Model :
                 Sooner(c, m, n) /\ ~IsIn(AutomaticAlias[n], d.static) =>
                    Sooner(ModelList(d, c), AutomaticAlias[m], AutomaticAlias[n])
<1>1. PICK f : f = [i \in DOMAIN c |-> IF c[i] \in d.listed THEN <<AutomaticAlias[c[i]]>> ELSE <<>>]
  OBVIOUS
<1>2. PICK n \in Nat : n = Len(c) /\ DOMAIN c = 1..n /\ \A i \in 1..n : c[i] \in Model
  OBVIOUS
<1>3. \A e \in Alias : <<e>> \in Seq(Alias) /\ Len(<<e>>) = 1 /\ <<e>>[1] = e
  OBVIOUS
<1>4. <<>> \in Seq(Alias) /\ Len(<<>>) = 0
  OBVIOUS
<1>5. d.listed \subseteq Model /\ d.static \in Seq(Alias)
  BY DEF Deployment
<1>6. \A m \in Model : AutomaticAlias[m] \in Alias
  BY RoutingAssumption
<1>7. \A i \in 1..n : f[i] = IF c[i] \in d.listed THEN <<AutomaticAlias[c[i]]>> ELSE <<>>
  BY <1>1, <1>2
<1>8. f \in Seq(Seq(Alias)) /\ Len(f) = n
  <2>1. f = [i \in 1..n |-> f[i]]
    BY <1>1, <1>2
  <2>2. \A i \in 1..n : f[i] \in Seq(Alias)
    BY <1>2, <1>3, <1>4, <1>6, <1>7
  <2>. QED
    BY <2>1, <2>2, PartsSeq
<1>9. \A i \in 1..n : \A x : IsIn(x, f[i]) <=> c[i] \in d.listed /\ x = AutomaticAlias[c[i]]
  <2>. SUFFICES ASSUME NEW i \in 1..n, NEW x
                PROVE  IsIn(x, f[i]) <=> c[i] \in d.listed /\ x = AutomaticAlias[c[i]]
    OBVIOUS
  <2>1. CASE c[i] \in d.listed
    <3>1. PICK a \in Alias : a = AutomaticAlias[c[i]]
      BY <1>2, <1>6
    <3>2. f[i] = <<a>>
      BY <1>7, <2>1, <3>1
    <3>3. Len(f[i]) = 1 /\ f[i][1] = a
      BY <1>3, <3>2
    <3>. QED
      BY <2>1, <3>1, <3>3 DEF IsIn
  <2>2. CASE c[i] \notin d.listed
    <3>1. Len(f[i]) = 0
      BY <1>4, <1>7, <2>2
    <3>. QED
      BY <2>2, <3>1 DEF IsIn
  <2>. QED
    BY <2>1, <2>2
<1>10. PICK u \in Seq(Alias) : u = FlattenSeq(f)
  BY <1>8, FlattenType
<1>11. \A x : IsIn(x, u) <=> \E m \in d.listed : IsIn(m, c) /\ x = AutomaticAlias[m]
  <2>. SUFFICES ASSUME NEW x
                PROVE  IsIn(x, u) <=> \E m \in d.listed : IsIn(m, c) /\ x = AutomaticAlias[m]
    OBVIOUS
  <2>1. IsIn(x, u) <=> \E i \in 1..n : IsIn(x, f[i])
    BY <1>8, <1>10, InFlattened
  <2>2. IsIn(x, u) <=> \E i \in 1..n : c[i] \in d.listed /\ x = AutomaticAlias[c[i]]
    BY <1>9, <2>1
  <2>. QED
    BY <1>2, <2>2 DEF IsIn
<1>12. PICK s : s = d.static \o u
  OBVIOUS
<1>13. Splits(s, d.static, u) /\ s \in Seq(Alias)
  <2>1. Splits(s, d.static, u)
    BY <1>12 DEF Splits
  <2>. QED
    BY <1>5, <2>1, ElementsOfSplit
<1>14. PICK t \in Seq(Alias) : /\ t = FirstOfEach(s) /\ Distinct(t)
                               /\ \A x : IsIn(x, t) <=> IsIn(x, s)
                               /\ \A x, y : Sooner(s, x, y) => Sooner(t, x, y)
  BY <1>13, FirstOfEachFacts
<1>15. t = ModelList(d, c)
  BY <1>1, <1>10, <1>12, <1>14 DEF ModelList
<1>16. \A x : IsIn(x, s) <=> IsIn(x, d.static) \/ IsIn(x, u)
  BY <1>5, <1>13, InSplit
<1>17. \A x, y : /\ Sooner(d.static, x, y) => Sooner(s, x, y)
                 /\ IsIn(x, d.static) /\ ~IsIn(y, d.static) => Sooner(s, x, y)
                 /\ Sooner(u, x, y) /\ ~IsIn(y, d.static) => Sooner(s, x, y)
  BY <1>5, <1>13, SoonerOfSplit
<1>18. \A m \in d.listed : \A k \in Model :
          Sooner(c, m, k) => Sooner(u, AutomaticAlias[m], AutomaticAlias[k])
  <2>. SUFFICES ASSUME NEW m \in d.listed, NEW k \in Model, Sooner(c, m, k)
                PROVE  Sooner(u, AutomaticAlias[m], AutomaticAlias[k])
    OBVIOUS
  <2>1. PICK i \in 1..n : c[i] = m /\ \A j \in 1..i : c[j] # k
    BY <1>2 DEF Sooner
  <2>2. i \in 1..Len(f) /\ \A j \in 1..i : j \in 1..n
    BY <1>8
  <2>3. IsIn(AutomaticAlias[m], f[i])
    BY <1>9, <2>1
  <2>4. \A j \in 1..i : ~IsIn(AutomaticAlias[k], f[j])
    <3>. SUFFICES ASSUME NEW j \in 1..i, IsIn(AutomaticAlias[k], f[j]) PROVE FALSE
      OBVIOUS
    <3>1. AutomaticAlias[k] = AutomaticAlias[c[j]] /\ c[j] \in Model
      BY <1>2, <1>9, <2>2
    <3>. QED
      BY <2>1, <3>1, RoutingAssumption
  <2>. QED
    BY <1>8, <1>10, <2>2, <2>3, <2>4, SoonerOfFlattened
<1>. QED
  BY <1>11, <1>14, <1>15, <1>16, <1>17, <1>18

\* The list pages are cut from, under some settings and for some catalog.
List(d, c) == IF d.discovery = "auto" THEN ModelList(d, c) ELSE d.static

LEMMA ListFacts ==
    ASSUME NEW d \in Deployment, NEW c \in Seq(Model)
    PROVE  List(d, c) \in Seq(Alias) /\ Distinct(List(d, c))
<1>1. d.static \in Seq(Alias) /\ IsInjective(d.static)
  BY DEF Deployment
<1>2. Distinct(d.static)
  BY <1>1 DEF Distinct, IsInjective
<1>. QED
  BY <1>1, <1>2, AutomaticList DEF List

\* Two aliases that are in both of two lists are in the same order in both.
LEMMA ListOrder ==
    ASSUME NEW d \in Deployment, NEW old \in Catalogs, NEW new \in Catalogs, NEW x, NEW y,
           IsIn(x, List(d, old)), IsIn(y, List(d, old)), IsIn(x, List(d, new)), IsIn(y, List(d, new)),
           Sooner(List(d, old), x, y)
    PROVE  Sooner(List(d, new), x, y)
<1>1. CASE d.discovery # "auto"
  BY <1>1 DEF List
<1>2. CASE d.discovery = "auto"
  <2>1. old \in Seq(Model) /\ new \in Seq(Model)
    BY PagesAssumption
  <2>2. PICK s \in Seq(Alias) : s = d.static
    BY DEF Deployment
  <2>3. PICK a \in Seq(Alias) :
           /\ a = List(d, old)
           /\ \A v : IsIn(v, a) <=> IsIn(v, s) \/ \E m \in d.listed : IsIn(m, old) /\ v = AutomaticAlias[m]
           /\ \A v, w : Sooner(s, v, w) => Sooner(a, v, w)
           /\ \A v, w : IsIn(v, s) /\ ~IsIn(w, s) => Sooner(a, v, w)
           /\ \A m \in d.listed : \A n \in Model :
                 Sooner(old, m, n) /\ ~IsIn(AutomaticAlias[n], s) =>
                    Sooner(a, AutomaticAlias[m], AutomaticAlias[n])
    BY <1>2, <2>1, <2>2, AutomaticList DEF List
  <2>4. PICK b \in Seq(Alias) :
           /\ b = List(d, new)
           /\ \A v : IsIn(v, b) <=> IsIn(v, s) \/ \E m \in d.listed : IsIn(m, new) /\ v = AutomaticAlias[m]
           /\ \A v, w : Sooner(s, v, w) => Sooner(b, v, w)
           /\ \A v, w : IsIn(v, s) /\ ~IsIn(w, s) => Sooner(b, v, w)
           /\ \A m \in d.listed : \A n \in Model :
                 Sooner(new, m, n) /\ ~IsIn(AutomaticAlias[n], s) =>
                    Sooner(b, AutomaticAlias[m], AutomaticAlias[n])
    BY <1>2, <2>1, <2>2, AutomaticList DEF List
  <2>5. ~Sooner(a, y, x) /\ x # y
    <3>1. Sooner(a, x, y) /\ Len(a) \in Nat
      BY <2>3
    <3>2. ~Sooner(a, y, x)
      BY <3>1, SoonerNotBoth
    <3>. QED
      BY <3>1, <3>2
  <2>6. CASE IsIn(x, s) /\ IsIn(y, s)
    <3>1. Sooner(s, x, y) \/ Sooner(s, y, x)
      <4>1. Len(s) \in Nat
        OBVIOUS
      <4>. QED
        BY <2>5, <2>6, <4>1, SoonerOneOf
    <3>. QED
      BY <2>3, <2>4, <2>5, <3>1
  <2>7. CASE IsIn(x, s) /\ ~IsIn(y, s)
    BY <2>4, <2>7
  <2>8. CASE ~IsIn(x, s) /\ IsIn(y, s)
    BY <2>3, <2>5, <2>8
  <2>9. CASE ~IsIn(x, s) /\ ~IsIn(y, s)
    <3>1. d.listed \subseteq Model
      BY DEF Deployment
    <3>2. PICK m \in d.listed : IsIn(m, old) /\ x = AutomaticAlias[m]
      BY <2>3, <2>9
    <3>3. PICK n \in d.listed : IsIn(n, old) /\ y = AutomaticAlias[n]
      BY <2>3, <2>9
    <3>4. IsIn(m, new) /\ IsIn(n, new)
      <4>1. \A k, l \in Model : AutomaticAlias[k] = AutomaticAlias[l] => k = l
        BY RoutingAssumption
      <4>2. PICK k \in d.listed : IsIn(k, new) /\ x = AutomaticAlias[k]
        BY <2>4, <2>9
      <4>3. PICK l \in d.listed : IsIn(l, new) /\ y = AutomaticAlias[l]
        BY <2>4, <2>9
      <4>. QED
        BY <3>1, <3>2, <3>3, <4>1, <4>2, <4>3
    <3>5. m # n
      BY <2>5, <3>2, <3>3
    <3>6. Sooner(old, m, n)
      <4>1. ~Sooner(old, n, m)
        BY <2>3, <2>5, <2>9, <3>1, <3>2, <3>3
      <4>2. Len(old) \in Nat
        BY <2>1
      <4>. QED
        BY <3>2, <3>3, <3>5, <4>1, <4>2, SoonerOneOf
    <3>7. Sooner(new, m, n)
      BY <3>3, <3>4, <3>5, <3>6, CatalogOrder
    <3>. QED
      BY <2>4, <2>9, <3>1, <3>2, <3>3, <3>7
  <2>. QED
    BY <2>6, <2>7, <2>8, <2>9
<1>. QED
  BY <1>1, <1>2

\* Where things are in a list without repetitions.
LEMMA SoonerIndex ==
    ASSUME NEW s, Len(s) \in Nat, Distinct(s), NEW i \in 1..Len(s), NEW j \in 1..Len(s)
    PROVE  Sooner(s, s[i], s[j]) <=> i < j
<1>1. ASSUME Sooner(s, s[i], s[j]) PROVE i < j
  <2>1. PICK k \in 1..Len(s) : s[k] = s[i] /\ \A h \in 1..k : s[h] # s[j]
    BY <1>1 DEF Sooner
  <2>2. k = i
    BY <2>1 DEF Distinct
  <2>. QED
    BY <2>1, <2>2
<1>2. ASSUME i < j PROVE Sooner(s, s[i], s[j])
  <2>1. \A h \in 1..i : h \in 1..Len(s) /\ h # j
    BY <1>2
  <2>2. \A h \in 1..i : s[h] # s[j]
    BY <2>1 DEF Distinct
  <2>. QED
    BY <2>2 DEF Sooner
<1>. QED
  BY <1>1, <1>2

\* A page after the entry at place p, or from the start (p = 0); a page before the
\* entry at place p.
IsPage(page, ids, from, to) ==
    /\ Len(page) = IF from <= to THEN to - from + 1 ELSE 0
    /\ \A i \in 1..Len(page) : page[i] = ids[from + i - 1]

LEMMA CursorPlace ==
    ASSUME NEW S, NEW ids \in Seq(S), NEW at \in Range(ids)
    PROVE  IndexOf(ids, at) \in 1..Len(ids) /\ ids[IndexOf(ids, at)] = at
BY DEF IndexOf, Range

LEMMA PageAfterFacts ==
    ASSUME NEW S, NEW ids \in Seq(S), Null \notin S, NEW at, NEW limit \in Nat \ {0},
           PageAfter(ids, at, limit) # Null
    PROVE  LET page == PageAfter(ids, at, limit)
           IN  \E p \in 0..Len(ids), e \in 0..Len(ids) :
                  /\ IF at = Null THEN p = 0 ELSE p \in 1..Len(ids) /\ ids[p] = at
                  /\ p <= e /\ (e = p => p = Len(ids))
                  /\ page.data \in Seq(S) /\ IsPage(page.data, ids, p + 1, e)
                  /\ page.hasMore <=> e < Len(ids)
<1>1. PICK n \in Nat : n = Len(ids) /\ DOMAIN ids = 1..n
  OBVIOUS
<1>2. at = Null \/ at \in Range(ids)
  BY DEF PageAfter
<1>3. PICK p \in 0..n : /\ p = IF at = Null THEN 0 ELSE IndexOf(ids, at)
                        /\ IF at = Null THEN p = 0 ELSE p \in 1..n /\ ids[p] = at
  BY <1>1, <1>2, CursorPlace
<1>4. PICK e \in 0..n : e = Min({n, p + limit}) /\ e <= n /\ p <= e /\ (e = p => p = n)
  <2>1. p + limit \in Int
    BY <1>1
  <2>2. Min({n, p + limit}) = IF n <= p + limit THEN n ELSE p + limit
    BY <1>1, <2>1, MinOfTwo
  <2>. QED
    BY <1>1, <2>2
<1>5. PICK page : page = PageAfter(ids, at, limit)
  OBVIOUS
<1>6. page.data = SubSeq(ids, p + 1, e) /\ (page.hasMore <=> e < n)
  BY <1>1, <1>2, <1>3, <1>4, <1>5 DEF PageAfter
<1>7. page.data \in Seq(S)
  <2>1. p \in Nat /\ e \in Int /\ e <= Len(ids)
    BY <1>1
  <2>2. SubSeq(ids, p + 1, e) \in Seq(S)
    BY <2>1, StretchType
  <2>. QED
    BY <1>6, <2>2
<1>8. IsPage(SubSeq(ids, p + 1, e), ids, p + 1, e)
  BY <1>1 DEF IsPage
<1>. QED
  BY <1>1, <1>3, <1>4, <1>5, <1>6, <1>7, <1>8

LEMMA PageBeforeFacts ==
    ASSUME NEW S, NEW ids \in Seq(S), NEW at, NEW limit \in Nat \ {0},
           PageBefore(ids, at, limit) # Null
    PROVE  LET page == PageBefore(ids, at, limit)
           IN  \E p \in 1..Len(ids), b \in 1..Len(ids) :
                  /\ ids[p] = at
                  /\ b <= p /\ (b = p => p = 1)
                  /\ page.data \in Seq(S) /\ IsPage(page.data, ids, b, p - 1)
                  /\ page.hasMore <=> b > 1
<1>1. PICK n \in Nat : n = Len(ids) /\ DOMAIN ids = 1..n
  OBVIOUS
<1>2. at \in Range(ids)
  BY DEF PageBefore
<1>3. PICK p \in 1..n : p = IndexOf(ids, at) /\ ids[p] = at
  BY <1>1, <1>2, CursorPlace
<1>4. PICK a \in Nat : a = Max({0, (p - 1) - limit}) /\ a <= p - 1 /\ (a = p - 1 => p = 1)
  <2>1. (p - 1) - limit \in Int
    BY <1>1
  <2>2. Max({0, (p - 1) - limit}) = IF 0 <= (p - 1) - limit THEN (p - 1) - limit ELSE 0
    BY <1>1, <2>1, MaxOfTwo
  <2>. QED
    BY <1>1, <2>2
<1>5. PICK page : page = PageBefore(ids, at, limit)
  OBVIOUS
<1>6. page.data = SubSeq(ids, a + 1, p - 1) /\ (page.hasMore <=> a > 0)
  BY <1>1, <1>2, <1>3, <1>4, <1>5 DEF PageBefore
<1>7. PICK b \in 1..n, e \in 0..n : b = a + 1 /\ e = p - 1
  BY <1>1, <1>4
<1>8. SubSeq(ids, b, e) \in Seq(S)
  <2>1. a \in Nat /\ e \in Int /\ e <= Len(ids)
    BY <1>1
  <2>2. SubSeq(ids, a + 1, e) \in Seq(S)
    BY <2>1, StretchType
  <2>. QED
    BY <1>7, <2>2
<1>9. IsPage(SubSeq(ids, b, e), ids, b, e)
  BY <1>1 DEF IsPage
<1>10. b <= p /\ (b = p => p = 1) /\ (page.hasMore <=> b > 1)
  BY <1>4, <1>6, <1>7
<1>11. page.data \in Seq(S) /\ IsPage(page.data, ids, b, p - 1)
  BY <1>6, <1>7, <1>8, <1>9
<1>. QED
  BY <1>1, <1>3, <1>5, <1>10, <1>11

\* a is in s once at most.
AtMostOnce(s, a) == \A i, j \in 1..Len(s) : s[i] = a /\ s[j] = a => i = j

LEMMA OnceOfSplit ==
    ASSUME NEW S, NEW x \in Seq(S), NEW y \in Seq(S), NEW s, Splits(s, x, y), NEW a,
           AtMostOnce(x, a), AtMostOnce(y, a), ~(IsIn(a, x) /\ IsIn(a, y))
    PROVE  AtMostOnce(s, a)
<1>0. /\ Len(x) \in Nat /\ Len(y) \in Nat /\ Len(s) = Len(x) + Len(y)
      /\ \A i \in 1..Len(x) : s[i] = x[i]
      /\ \A i \in 1..Len(y) : s[Len(x) + i] = y[i]
  BY ElementsOfSplit
<1>1. \A i \in 1..Len(s) : \/ i \in 1..Len(x) /\ s[i] = x[i]
                           \/ i - Len(x) \in 1..Len(y) /\ s[i] = y[i - Len(x)]
  <2>. SUFFICES ASSUME NEW i \in 1..Len(s), i \notin 1..Len(x)
                PROVE  i - Len(x) \in 1..Len(y) /\ s[i] = y[i - Len(x)]
    BY <1>0
  <2>1. i - Len(x) \in 1..Len(y) /\ Len(x) + (i - Len(x)) = i
    BY <1>0
  <2>. QED
    BY <1>0, <2>1
<1>. SUFFICES ASSUME NEW i \in 1..Len(s), NEW j \in 1..Len(s), s[i] = a, s[j] = a PROVE i = j
  BY DEF AtMostOnce
<1>2. \/ i \in 1..Len(x) /\ x[i] = a /\ IsIn(a, x)
      \/ i - Len(x) \in 1..Len(y) /\ y[i - Len(x)] = a /\ IsIn(a, y)
  BY <1>1 DEF IsIn
<1>3. \/ j \in 1..Len(x) /\ x[j] = a /\ IsIn(a, x)
      \/ j - Len(x) \in 1..Len(y) /\ y[j - Len(x)] = a /\ IsIn(a, y)
  BY <1>1 DEF IsIn
<1>4. CASE i \in 1..Len(x) /\ x[i] = a /\ j \in 1..Len(x) /\ x[j] = a
  BY <1>4 DEF AtMostOnce
<1>5. CASE /\ i - Len(x) \in 1..Len(y) /\ y[i - Len(x)] = a
           /\ j - Len(x) \in 1..Len(y) /\ y[j - Len(x)] = a
  <2>1. i - Len(x) = j - Len(x)
    BY <1>5 DEF AtMostOnce
  <2>. QED
    BY <1>0, <2>1
<1>. QED
  BY <1>2, <1>3, <1>4, <1>5

\* What a page holds of a list.
LEMMA PageHolds ==
    ASSUME NEW ids, Len(ids) \in Nat, Distinct(ids), NEW from \in Nat \ {0}, NEW to \in Nat,
           to <= Len(ids), NEW page, IsPage(page, ids, from, to), NEW q \in 1..Len(ids)
    PROVE  /\ IsIn(ids[q], page) <=> from <= q /\ q <= to
           /\ AtMostOnce(page, ids[q])
<1>1. PICK n \in Nat : n = Len(page) /\ n = IF from <= to THEN to - from + 1 ELSE 0
  BY DEF IsPage
<1>2. \A i \in 1..n : page[i] = ids[from + i - 1] /\ from + i - 1 \in 1..Len(ids)
  BY <1>1 DEF IsPage
<1>3. \A i \in 1..n : page[i] = ids[q] => q = from + i - 1
  BY <1>2 DEF Distinct
<1>4. IsIn(ids[q], page) => from <= q /\ q <= to
  BY <1>1, <1>3 DEF IsIn
<1>5. ASSUME from <= q, q <= to PROVE IsIn(ids[q], page)
  <2>1. PICK i \in 1..n : i = q - from + 1
    BY <1>1, <1>5
  <2>2. page[i] = ids[q]
    <3>1. from + i - 1 = q
      BY <2>1
    <3>. QED
      BY <1>2, <3>1
  <2>. QED
    BY <1>1, <2>2 DEF IsIn
<1>6. AtMostOnce(page, ids[q])
  <2>1. \A i, j \in 1..n : page[i] = ids[q] /\ page[j] = ids[q] => i = j
    BY <1>3
  <2>. QED
    BY <1>1, <2>1 DEF AtMostOnce
<1>. QED
  BY <1>4, <1>5, <1>6

\* An alias is on the side of the cursor that was walked.
Passed(forward, list, k, a) == IF forward THEN ~Sooner(list, k, a) ELSE ~Sooner(list, a, k)

\* The strengthening: of the aliases that are due, the walk has seen those on its
\* side of the cursor, each once, in whichever list the cursor is looked up next.
Walked(forward, k, s, due, d) ==
    \A a \in due :
        /\ AtMostOnce(s, a)
        /\ k = Null => forward /\ ~IsIn(a, s)
        /\ k # Null => \A c \in Catalogs :
              IsIn(a, List(d, c)) /\ IsIn(k, List(d, c)) =>
                  (IsIn(a, s) <=> Passed(forward, List(d, c), k, a))

\* The whole list was walked.
AllSeen(s, due) == \A a \in due : AtMostOnce(s, a) /\ IsIn(a, s)

\* The order of two aliases is that of any list both are in.
LEMMA PassedEverywhere ==
    ASSUME NEW d \in Deployment, NEW old \in Catalogs, NEW new \in Catalogs, NEW forward,
           NEW k, NEW a, IsIn(k, List(d, old)), IsIn(a, List(d, old)),
           IsIn(k, List(d, new)), IsIn(a, List(d, new))
    PROVE  Passed(forward, List(d, old), k, a) <=> Passed(forward, List(d, new), k, a)
BY ListOrder DEF Passed

LEMMA ReadAfter ==
    ASSUME NEW d \in Deployment, NEW c \in Catalogs, NEW limit \in Nat \ {0}, NEW k,
           NEW s \in Seq(Alias), NEW due, Walked(TRUE, k, s, due, d),
           \A a \in due : IsIn(a, List(d, c)),
           NEW page, page = PageAfter(List(d, c), k, limit), page # Null
    PROVE  /\ s \o page.data \in Seq(Alias)
           /\ IF page.hasMore
              THEN Walked(TRUE, IF page.data = <<>> THEN k ELSE Last(page.data),
                          s \o page.data, due, d)
              ELSE AllSeen(s \o page.data, due)
<1>1. PICK ids \in Seq(Alias) : ids = List(d, c) /\ Distinct(ids)
  <2>1. c \in Seq(Model)
    BY PagesAssumption
  <2>. QED
    BY <2>1, ListFacts
<1>2. Null \notin Alias
  BY RoutingAssumption DEF Name
<1>3. PICK n \in Nat : n = Len(ids)
  OBVIOUS
<1>4. PICK p \in 0..n, e \in 0..n :
         /\ IF k = Null THEN p = 0 ELSE p \in 1..n /\ ids[p] = k
         /\ p <= e /\ (e = p => p = n)
         /\ page.data \in Seq(Alias) /\ IsPage(page.data, ids, p + 1, e)
         /\ page.hasMore <=> e < n
  BY <1>1, <1>2, <1>3, PageAfterFacts
<1>5. PICK data \in Seq(Alias) : data = page.data
  BY <1>4
<1>6. PICK t : t = s \o data
  OBVIOUS
<1>7. Splits(t, s, data) /\ t \in Seq(Alias)
  <2>1. Splits(t, s, data)
    BY <1>6 DEF Splits
  <2>. QED
    BY <2>1, ElementsOfSplit
<1>8. ASSUME NEW q \in 1..n, ids[q] \in due
      PROVE  AtMostOnce(t, ids[q]) /\ (IsIn(ids[q], t) <=> q <= e)
  <2>1. IsIn(ids[q], s) <=> q <= p
    <3>1. CASE k = Null
      <4>1. p = 0
        BY <1>4, <3>1
      <4>. QED
        BY <1>8, <3>1, <4>1 DEF Walked
    <3>2. CASE k # Null
      <4>1. p \in 1..n /\ ids[p] = k
        BY <1>4, <3>2
      <4>2. IsIn(ids[q], ids) /\ IsIn(k, ids)
        BY <1>3, <4>1 DEF IsIn
      <4>3. IsIn(ids[q], s) <=> ~Sooner(ids, k, ids[q])
        BY <1>1, <1>8, <3>2, <4>2 DEF Walked, Passed
      <4>4. Sooner(ids, k, ids[q]) <=> p < q
        BY <1>1, <1>3, <4>1, SoonerIndex
      <4>. QED
        BY <4>1, <4>3, <4>4
    <3>. QED
      BY <3>1, <3>2
  <2>2. /\ IsIn(ids[q], data) <=> p + 1 <= q /\ q <= e
        /\ AtMostOnce(data, ids[q])
    <3>1. PICK from \in Nat \ {0} : from = p + 1
      BY <1>3
    <3>2. IsPage(data, ids, from, e) /\ e \in Nat /\ e <= Len(ids)
      BY <1>3, <1>4, <1>5, <3>1
    <3>. QED
      BY <1>1, <1>3, <3>1, <3>2, PageHolds
  <2>3. AtMostOnce(s, ids[q])
    BY <1>8 DEF Walked
  <2>4. ~(IsIn(ids[q], s) /\ IsIn(ids[q], data))
    BY <1>3, <2>1, <2>2
  <2>5. AtMostOnce(t, ids[q])
    BY <1>7, <2>2, <2>3, <2>4, OnceOfSplit
  <2>6. IsIn(ids[q], t) <=> IsIn(ids[q], s) \/ IsIn(ids[q], data)
    BY <1>7, InSplit
  <2>. QED
    BY <1>4, <2>1, <2>2, <2>5, <2>6
<1>9. \A a \in due : \E q \in 1..n : ids[q] = a
  BY <1>1, <1>3 DEF IsIn
<1>10. CASE ~page.hasMore
  <2>1. e = n
    BY <1>4, <1>10
  <2>2. AllSeen(t, due)
    BY <1>8, <1>9, <2>1 DEF AllSeen
  <2>. QED
    BY <1>5, <1>6, <1>7, <1>10, <2>2
<1>11. CASE page.hasMore
  <2>1. e < n /\ p < e
    BY <1>4, <1>11
  <2>2. Len(data) = e - p /\ data[e - p] = ids[e]
    <3>0. IsPage(data, ids, p + 1, e) /\ p + 1 <= e
      BY <1>4, <1>5, <2>1
    <3>1. Len(data) = e - (p + 1) + 1 /\ \A i \in 1..Len(data) : data[i] = ids[p + 1 + i - 1]
      BY <3>0 DEF IsPage
    <3>2. PICK l \in 1..Len(data) : l = e - p /\ l = Len(data) /\ p + 1 + l - 1 = e
      <4>1. e \in Nat /\ p \in Nat
        BY <1>3
      <4>2. e - p \in 1..Len(data) /\ e - p = Len(data) /\ p + 1 + (e - p) - 1 = e
        BY <2>1, <3>1, <4>1
      <4>. QED
        BY <4>2
    <3>3. data[l] = ids[p + 1 + l - 1]
      BY <3>1
    <3>. QED
      BY <3>2, <3>3
  <2>3. PICK k2 : k2 = IF data = <<>> THEN k ELSE Last(data)
    OBVIOUS
  <2>4. k2 = ids[e] /\ k2 # Null
    <3>1. data # <<>>
      <4>1. Len(data) # 0
        BY <2>1, <2>2
      <4>. QED
        BY <4>1
    <3>2. Last(data) = data[Len(data)]
      BY DEF Last
    <3>3. e \in 1..n
      BY <2>1
    <3>. QED
      BY <1>2, <1>3, <2>2, <2>3, <3>1, <3>2, <3>3
  <2>5. ASSUME NEW a \in due, NEW c2 \in Catalogs, IsIn(a, List(d, c2)), IsIn(k2, List(d, c2))
        PROVE  IsIn(a, t) <=> Passed(TRUE, List(d, c2), k2, a)
    <3>1. PICK q \in 1..n : ids[q] = a
      BY <1>9
    <3>2. e \in 1..n
      BY <2>1
    <3>3. Sooner(ids, k2, a) <=> e < q
      BY <1>1, <1>3, <2>4, <3>1, <3>2, SoonerIndex
    <3>4. IsIn(a, t) <=> q <= e
      BY <1>8, <3>1
    <3>5. IsIn(a, t) <=> Passed(TRUE, ids, k2, a)
      BY <3>1, <3>2, <3>3, <3>4 DEF Passed
    <3>6. IsIn(a, ids) /\ IsIn(k2, ids)
      BY <1>3, <2>4, <3>1, <3>2 DEF IsIn
    <3>. QED
      BY <1>1, <2>5, <3>5, <3>6, PassedEverywhere
  <2>6. Walked(TRUE, k2, t, due, d)
    BY <1>8, <1>9, <2>4, <2>5 DEF Walked
  <2>. QED
    BY <1>5, <1>6, <1>7, <1>11, <2>3, <2>6
<1>. QED
  BY <1>10, <1>11

LEMMA ReadBefore ==
    ASSUME NEW d \in Deployment, NEW c \in Catalogs, NEW limit \in Nat \ {0}, NEW k,
           NEW s \in Seq(Alias), NEW due, Walked(FALSE, k, s, due, d),
           \A a \in due : IsIn(a, List(d, c)),
           NEW page, page = PageBefore(List(d, c), k, limit), page # Null
    PROVE  /\ page.data \o s \in Seq(Alias)
           /\ IF page.hasMore
              THEN Walked(FALSE, IF page.data = <<>> THEN k ELSE Head(page.data),
                          page.data \o s, due, d)
              ELSE AllSeen(page.data \o s, due)
<1>1. PICK ids \in Seq(Alias) : ids = List(d, c) /\ Distinct(ids)
  <2>1. c \in Seq(Model)
    BY PagesAssumption
  <2>. QED
    BY <2>1, ListFacts
<1>2. Null \notin Alias
  BY RoutingAssumption DEF Name
<1>3. PICK n \in Nat : n = Len(ids)
  OBVIOUS
<1>4. PICK p \in 1..n, b \in 1..n :
         /\ ids[p] = k
         /\ b <= p /\ (b = p => p = 1)
         /\ page.data \in Seq(Alias) /\ IsPage(page.data, ids, b, p - 1)
         /\ page.hasMore <=> b > 1
  BY <1>1, <1>3, PageBeforeFacts
<1>5. PICK data \in Seq(Alias) : data = page.data
  BY <1>4
<1>6. PICK t : t = data \o s
  OBVIOUS
<1>7. Splits(t, data, s) /\ t \in Seq(Alias)
  <2>1. Splits(t, data, s)
    BY <1>6 DEF Splits
  <2>. QED
    BY <2>1, ElementsOfSplit
<1>8. ASSUME NEW q \in 1..n, ids[q] \in due
      PROVE  AtMostOnce(t, ids[q]) /\ (IsIn(ids[q], t) <=> b <= q)
  <2>1. IsIn(ids[q], s) <=> p <= q
    <3>1. IsIn(ids[q], ids) /\ IsIn(k, ids) /\ k # Null
      BY <1>2, <1>3, <1>4 DEF IsIn
    <3>2. IsIn(ids[q], s) <=> ~Sooner(ids, ids[q], k)
      BY <1>1, <1>8, <3>1 DEF Walked, Passed
    <3>3. Sooner(ids, ids[q], k) <=> q < p
      BY <1>1, <1>3, <1>4, SoonerIndex
    <3>. QED
      BY <3>2, <3>3
  <2>2. /\ IsIn(ids[q], data) <=> b <= q /\ q <= p - 1
        /\ AtMostOnce(data, ids[q])
    <3>1. PICK to \in Nat : to = p - 1 /\ to <= Len(ids)
      BY <1>3
    <3>2. PICK from \in Nat \ {0} : from = b /\ IsPage(data, ids, from, to)
      BY <1>3, <1>4, <1>5, <3>1
    <3>3. /\ IsIn(ids[q], data) <=> from <= q /\ q <= to
          /\ AtMostOnce(data, ids[q])
      <4>1. Len(ids) \in Nat /\ Distinct(ids) /\ q \in 1..Len(ids)
        BY <1>1, <1>3
      <4>2. to <= Len(ids) /\ IsPage(data, ids, from, to)
        BY <3>1, <3>2
      <4>. QED
        BY <4>1, <4>2, PageHolds
    <3>. QED
      BY <3>1, <3>2, <3>3
  <2>3. AtMostOnce(s, ids[q])
    BY <1>8 DEF Walked
  <2>4. ~(IsIn(ids[q], data) /\ IsIn(ids[q], s))
    BY <1>3, <2>1, <2>2
  <2>5. AtMostOnce(t, ids[q])
    BY <1>7, <2>2, <2>3, <2>4, OnceOfSplit
  <2>6. IsIn(ids[q], t) <=> IsIn(ids[q], data) \/ IsIn(ids[q], s)
    BY <1>7, InSplit
  <2>. QED
    BY <1>4, <2>1, <2>2, <2>5, <2>6
<1>9. \A a \in due : \E q \in 1..n : ids[q] = a
  BY <1>1, <1>3 DEF IsIn
<1>10. CASE ~page.hasMore
  <2>1. b = 1
    BY <1>4, <1>10
  <2>2. AllSeen(t, due)
    BY <1>8, <1>9, <2>1 DEF AllSeen
  <2>. QED
    BY <1>5, <1>6, <1>7, <1>10, <2>2
<1>11. CASE page.hasMore
  <2>1. b < p
    BY <1>4, <1>11
  <2>2. Len(data) # 0 /\ data[1] = ids[b]
    <3>0. IsPage(data, ids, b, p - 1) /\ b <= p - 1
      BY <1>4, <1>5, <2>1
    <3>1. Len(data) = p - 1 - b + 1 /\ \A i \in 1..Len(data) : data[i] = ids[b + i - 1]
      BY <3>0 DEF IsPage
    <3>2. 1 \in 1..Len(data) /\ b + 1 - 1 = b
      BY <2>1, <3>1
    <3>3. data[1] = ids[b + 1 - 1]
      BY <3>1, <3>2
    <3>. QED
      BY <3>2, <3>3
  <2>3. PICK k2 : k2 = IF data = <<>> THEN k ELSE Head(data)
    OBVIOUS
  <2>4. k2 = ids[b] /\ k2 # Null
    <3>1. data # <<>>
      BY <2>2
    <3>2. Head(data) = data[1]
      BY <3>1
    <3>. QED
      BY <1>2, <1>3, <2>2, <2>3, <3>1, <3>2
  <2>5. ASSUME NEW a \in due, NEW c2 \in Catalogs, IsIn(a, List(d, c2)), IsIn(k2, List(d, c2))
        PROVE  IsIn(a, t) <=> Passed(FALSE, List(d, c2), k2, a)
    <3>1. PICK q \in 1..n : ids[q] = a
      BY <1>9
    <3>2. Sooner(ids, a, k2) <=> q < b
      BY <1>1, <1>3, <2>4, <3>1, SoonerIndex
    <3>3. IsIn(a, t) <=> b <= q
      BY <1>8, <3>1
    <3>4. IsIn(a, t) <=> Passed(FALSE, ids, k2, a)
      BY <3>1, <3>2, <3>3 DEF Passed
    <3>5. IsIn(a, ids) /\ IsIn(k2, ids)
      BY <1>3, <2>4, <3>1 DEF IsIn
    <3>. QED
      BY <1>1, <2>5, <3>4, <3>5, PassedEverywhere
  <2>6. Walked(FALSE, k2, t, due, d)
    BY <1>8, <1>9, <2>4, <2>5 DEF Walked
  <2>. QED
    BY <1>5, <1>6, <1>7, <1>11, <2>3, <2>6
<1>. QED
  BY <1>10, <1>11

\* Where a walk stands, and that it is over when a model was chosen.
WalkInv ==
    /\ stage # "choosing" => walk = "idle"
    /\ walk = "walking" => /\ \A a \in steady : IsIn(a, List(deployment, catalog))
                           /\ Walked(way = "after", cursor, seen, steady, deployment)
    /\ walk = "finished" => AllSeen(seen, steady)

LEMMA WalkBegins ==
    ASSUME RoutedInv, RoutedInv', StartWalk, stage' = stage, stage = "choosing"
    PROVE  WalkInv'
<1>1. PICK d \in Deployment, c \in Catalogs : d = deployment /\ c = catalog
  BY DeploymentFacts DEF RoutedInv, PagesInv
<1>2. PICK ids \in Seq(Alias) : ids = List(d, c) /\ Distinct(ids)
  <2>1. c \in Seq(Model)
    BY PagesAssumption
  <2>. QED
    BY <2>1, ListFacts
<1>3. ids = Published
  BY <1>1, <1>2 DEF List, Published
<1>4. /\ walk' = "walking" /\ seen' = <<>> /\ deployment' = d /\ catalog' = c
      /\ \/ way' = "after" /\ cursor' = Null /\ steady' = Range(ids)
         \/ /\ way' = "before" /\ cursor' \in Range(ids)
            /\ steady' = Range(SubSeq(ids, 1, IndexOf(ids, cursor') - 1))
  BY <1>1, <1>3 DEF StartWalk
<1>5. \A a : ~IsIn(a, <<>>) /\ AtMostOnce(<<>>, a)
  BY DEF IsIn, AtMostOnce
<1>6. CASE way' = "after" /\ cursor' = Null /\ steady' = Range(ids)
  <2>1. \A a \in steady' : IsIn(a, ids)
    BY <1>6 DEF Range, IsIn
  <2>2. Walked(TRUE, Null, <<>>, steady', d)
    BY <1>5 DEF Walked
  <2>. QED
    BY <1>2, <1>4, <1>6, <2>1, <2>2 DEF WalkInv
<1>7. ASSUME way' = "before", cursor' \in Range(ids),
             steady' = Range(SubSeq(ids, 1, IndexOf(ids, cursor') - 1))
      PROVE  WalkInv'
  <2>1. PICK k \in Range(ids) : k = cursor'
    BY <1>7
  <2>2. PICK p \in 1..Len(ids) : p = IndexOf(ids, k) /\ ids[p] = k
    BY CursorPlace
  <2>3. PICK due : due = steady' /\ due = Range(SubSeq(ids, 1, p - 1))
    BY <1>7, <2>1, <2>2
  <2>4. \A a \in due : \E q \in 1..Len(ids) : ids[q] = a /\ q < p
    <3>1. PICK s : s = SubSeq(ids, 1, p - 1)
      OBVIOUS
    <3>2. DOMAIN s = 1..(p - 1) /\ \A i \in 1..(p - 1) : s[i] = ids[i]
      BY <3>1
    <3>3. \A a \in due : \E i \in 1..(p - 1) : s[i] = a
      BY <2>3, <3>1, <3>2 DEF Range
    <3>4. \A i \in 1..(p - 1) : i \in 1..Len(ids) /\ i < p
      OBVIOUS
    <3>. QED
      BY <3>2, <3>3, <3>4
  <2>5. \A a \in due : IsIn(a, ids)
    BY <2>4 DEF IsIn
  <2>6. k # Null
    <3>1. k \in Alias
      BY <2>2
    <3>. QED
      BY <3>1, RoutingAssumption DEF Name
  <2>7. IsIn(k, ids)
    BY <2>2 DEF IsIn
  <2>8. ASSUME NEW a \in due, NEW c2 \in Catalogs, IsIn(a, List(d, c2)), IsIn(k, List(d, c2))
        PROVE  ~Passed(FALSE, List(d, c2), k, a)
    <3>1. PICK q \in 1..Len(ids) : ids[q] = a /\ q < p
      BY <2>4
    <3>2. Sooner(ids, a, k)
      <4>1. Len(ids) \in Nat
        OBVIOUS
      <4>. QED
        BY <1>2, <2>2, <3>1, <4>1, SoonerIndex
    <3>3. ~Passed(FALSE, ids, k, a)
      BY <3>2 DEF Passed
    <3>. QED
      BY <1>2, <2>5, <2>7, <2>8, <3>3, PassedEverywhere
  <2>9. Walked(FALSE, k, <<>>, due, d)
    BY <1>5, <2>6, <2>8 DEF Walked
  <2>10. (way' = "after") = FALSE
    BY <1>7
  <2>. QED
    BY <1>2, <1>4, <2>1, <2>3, <2>5, <2>9, <2>10 DEF WalkInv
<1>. QED
  BY <1>4, <1>6, <1>7

LEMMA WalkReads ==
    ASSUME RoutedInv, RoutedInv', WalkInv, NEW limit \in Limits, ReadPage(limit),
           stage' = stage, stage = "choosing"
    PROVE  WalkInv'
<1>1. PICK d \in Deployment, c \in Catalogs : d = deployment /\ c = catalog
  BY DeploymentFacts DEF RoutedInv, PagesInv
<1>2. PICK ids \in Seq(Alias) : ids = List(d, c) /\ ids = Published
  <2>1. c \in Seq(Model)
    BY PagesAssumption
  <2>2. List(d, c) = Published
    BY <1>1 DEF List, Published
  <2>. QED
    BY <2>1, <2>2, ListFacts
<1>3. PICK k, s, due : k = cursor /\ s = seen /\ due = steady
  OBVIOUS
<1>4. s \in Seq(Alias)
  <2>1. Offered(d) \subseteq Alias
    <3>1. d.static \in Seq(Alias)
      BY DEF Deployment
    <3>2. \A i \in DOMAIN d.static : d.static[i] \in Alias
      BY <3>1
    <3>. QED
      BY <3>2, RoutingAssumption DEF Offered, Range
  <2>2. s \in Seq(Offered(d))
    BY <1>1, <1>3 DEF RoutedInv, PagesInv
  <2>3. PICK T : T = Offered(d)
    OBVIOUS
  <2>4. \A i \in 1..Len(s) : s[i] \in Alias
    BY <2>1, <2>2, <2>3
  <2>5. s \in Seq(T)
    BY <2>2, <2>3
  <2>. QED
    BY <2>4, <2>5
<1>5. limit \in Nat \ {0}
  BY PagesAssumption
<1>6. PICK page : page = PageAt(limit) /\ page # Null
  BY DEF ReadPage
<1>7. /\ walk = "walking" /\ way' = way /\ steady' = due /\ deployment' = d /\ catalog' = c
      /\ seen' = IF way = "after" THEN s \o page.data ELSE page.data \o s
      /\ walk' = IF page.hasMore THEN "walking" ELSE "finished"
      /\ cursor' = IF page.data = <<>> THEN k
                   ELSE IF way = "after" THEN Last(page.data) ELSE Head(page.data)
  BY <1>1, <1>3, <1>6 DEF ReadPage
<1>8. /\ \A a \in due : IsIn(a, List(d, c))
      /\ Walked(way = "after", k, s, due, d)
  BY <1>1, <1>3, <1>7 DEF WalkInv
<1>9. CASE way = "after"
  <2>1. Walked(TRUE, k, s, due, d)
    BY <1>8, <1>9
  <2>2. page = PageAfter(List(d, c), k, limit)
    BY <1>2, <1>3, <1>6, <1>9 DEF PageAt
  <2>3. PICK k2, t : k2 = cursor' /\ t = seen'
    OBVIOUS
  <2>4. /\ k2 = IF page.data = <<>> THEN k ELSE Last(page.data)
        /\ t = s \o page.data
    BY <1>7, <1>9, <2>3
  <2>5. IF page.hasMore THEN Walked(TRUE, k2, t, due, d) ELSE AllSeen(t, due)
    BY <1>4, <1>5, <1>6, <1>8, <2>1, <2>2, <2>4, ReadAfter
  <2>6. (way' = "after") = TRUE
    BY <1>7, <1>9
  <2>. QED
    BY <1>7, <1>8, <2>3, <2>5, <2>6 DEF WalkInv
<1>10. CASE way # "after"
  <2>1. Walked(FALSE, k, s, due, d)
    <3>1. (way = "after") = FALSE
      BY <1>10
    <3>. QED
      BY <1>8, <3>1
  <2>2. page = PageBefore(List(d, c), k, limit)
    BY <1>2, <1>3, <1>6, <1>10 DEF PageAt
  <2>3. PICK k2, t : k2 = cursor' /\ t = seen'
    OBVIOUS
  <2>4. /\ k2 = IF page.data = <<>> THEN k ELSE Head(page.data)
        /\ t = page.data \o s
    BY <1>7, <1>10, <2>3
  <2>5. IF page.hasMore THEN Walked(FALSE, k2, t, due, d) ELSE AllSeen(t, due)
    BY <1>4, <1>5, <1>6, <1>8, <2>1, <2>2, <2>4, ReadBefore
  <2>6. (way' = "after") = FALSE
    BY <1>7, <1>10
  <2>. QED
    BY <1>7, <1>8, <2>3, <2>5, <2>6 DEF WalkInv
<1>. QED
  BY <1>9, <1>10

LEMMA WalkStep ==
    ASSUME RoutedInv, RoutedInv', WalkInv, [SessionNext]_sessionVars
    PROVE  WalkInv'
<1>1. ASSUME UNCHANGED <<pagesVars, stage>> PROVE WalkInv'
  BY <1>1 DEF WalkInv, pagesVars, walkVars
<1>2. CASE Browse
  <2>0. stage = "choosing" /\ stage' = stage
    BY <1>2 DEF Browse, talkVars
  <2>1. CASE StartWalk
    BY <2>0, <2>1, WalkBegins
  <2>2. ASSUME NEW limit \in Limits, ReadPage(limit) PROVE WalkInv'
    BY <2>0, <2>2, WalkReads
  <2>3. CASE CursorRejected
    BY <2>0, <2>3 DEF CursorRejected, WalkInv
  <2>4. CASE Rebuild
    <3>1. /\ walk = "walking" /\ walk' = walk /\ way' = way /\ cursor' = cursor /\ seen' = seen
          /\ deployment' = deployment
          /\ steady' = steady \cap Range(List(deployment, catalog'))
      BY <2>4 DEF Rebuild, List
    <3>2. PICK d, due, less, k, s, forward, list :
             /\ d = deployment /\ due = steady /\ less = steady' /\ k = cursor /\ s = seen
             /\ forward = (way = "after") /\ list = List(deployment, catalog')
      OBVIOUS
    <3>3. Walked(forward, k, s, due, d) /\ less \subseteq due
      BY <3>1, <3>2 DEF WalkInv
    <3>4. Walked(forward, k, s, less, d)
      BY <3>3 DEF Walked
    <3>5. \A a \in less : IsIn(a, list)
      <4>1. list \in Seq(Alias)
        <5>1. deployment \in Deployment /\ catalog' \in Seq(Model)
          BY <2>4, PagesAssumption, DeploymentFacts DEF RoutedInv, PagesInv, Rebuild
        <5>2. PICK c \in Seq(Model) : c = catalog'
          BY <5>1
        <5>. QED
          BY <3>2, <5>1, <5>2, ListFacts
      <4>. QED
        BY <3>1, <3>2, <4>1 DEF Range, IsIn
    <3>. QED
      BY <2>0, <3>1, <3>2, <3>4, <3>5 DEF WalkInv
  <2>. QED
    BY <1>2, <2>1, <2>2, <2>3, <2>4 DEF Browse, PagesNext
<1>3. CASE AnyAnswer
  <2>1. PICK kinds, named, streamed : Answer(kinds, named, streamed)
    BY <1>3, Zenon DEF AnyAnswer
  <2>. QED
    BY <2>1 DEF Answer, WalkInv, pagesVars, walkVars
<1>4. CASE Redeploy
  BY <1>4 DEF Redeploy, WalkInv, walkVars
<1>5. ASSUME NEW name \in Name, Choose(name) PROVE WalkInv'
  BY <1>5 DEF Choose, WalkInv
<1>6. ASSUME NEW prompt, Submit(prompt) PROVE WalkInv'
  BY <1>6 DEF Submit, WalkInv, pagesVars, walkVars
<1>7. CASE UNCHANGED sessionVars
  BY <1>1, <1>7 DEF sessionVars, talkVars
<1>. QED
  BY <1>2, <1>3, <1>4, <1>5, <1>6, <1>7 DEF SessionNext

LEMMA SessionWalks == SessionSpec => []WalkInv
<1>1. SessionInit => WalkInv
  BY DEF SessionInit, PagesInit, WalkInv
<1>. QED
  BY <1>1, WalkStep, SessionRouted, PTL DEF SessionSpec

\* A walk through the list that was not rejected has seen every alias that was in the
\* list all the while exactly once, forward or backward, whatever the limits were
\* and whatever came and went between two pages.
THEOREM WalksSkipNothing == SessionSpec => []NoModelSkipped
<1>1. ASSUME RoutedInv, WalkInv PROVE NoModelSkipped
  <2>. SUFFICES ASSUME walk = "finished", NEW alias \in steady
                PROVE  Cardinality({i \in DOMAIN seen : seen[i] = alias}) = 1
    BY DEF NoModelSkipped
  <2>1. AtMostOnce(seen, alias) /\ IsIn(alias, seen)
    BY <1>1 DEF WalkInv, AllSeen
  <2>2. DOMAIN seen = 1..Len(seen)
    <3>1. PICK T : T = Offered(deployment)
      OBVIOUS
    <3>2. seen \in Seq(T)
      BY <1>1, <3>1 DEF RoutedInv, PagesInv
    <3>. QED
      BY <3>2
  <2>3. PICK i \in 1..Len(seen) : seen[i] = alias
    BY <2>1 DEF IsIn
  <2>4. {j \in DOMAIN seen : seen[j] = alias} = {i}
    BY <2>1, <2>2, <2>3 DEF AtMostOnce
  <2>5. Cardinality({i}) = 1
    BY FS_Singleton
  <2>. QED
    BY <2>4, <2>5
<1>. QED
  BY <1>1, SessionWalks, SessionRouted, PTL

-----------------------------------------------------------------------------
(* Blocks, messages and items.                                             *)

LEMMA BlockSorts ==
    ASSUME NEW b \in Block
    PROVE  IF b.kind = "carrier" THEN b \in CarrierBlock ELSE b \in SaidBlock
BY DEF Block, SaidBlock, CarrierBlock, Shown

\* x tells upstream what block b says.
Stands(x, b) ==
    /\ x.at = b.at /\ x.id = b.id /\ x.about = b.about
    /\ x.kind = "function_call" <=> b.kind = "tool_use"
    /\ x.kind = "function_call_output" <=> b.kind = "tool_result"

\* What blocks some blocks show.
Shows(blocks, b) == IsIn(b, blocks) /\ b.kind # "carrier"

\* The order of the blocks of a message: as they were said, and no two calls
\* with the same id.
Later(x, y) == x.kind # "carrier" /\ y.kind # "carrier" => x.at[2] < y.at[2]
SameCall(x, y) == x.kind = "tool_use" /\ y.kind = "tool_use" /\ x.id = y.id /\ x.id # NoId
BlockOrder == {p \in Block \X Block : Later(p[1], p[2]) /\ ~SameCall(p[1], p[2])}

\* The order of the items of a message: Chat tells the calls of an answer last.
CallLast(backend, role, isCall, isLaterCall) ==
    backend = "chat_completions" /\ role = "assistant" /\ ~isCall /\ isLaterCall
ItemOrder(backend, role) ==
    {p \in UpItem \X UpItem :
        \/ p[1].at[2] < p[2].at[2]
        \/ CallLast(backend, role, p[1].kind = "function_call", p[2].kind = "function_call")}

\* The items tell what the message shows, each thing once.
Tells(items, message, backend) ==
    /\ items \in Seq(UpItem)
    /\ \A x : IsIn(x, items) => \E b : Shows(message.blocks, b) /\ Stands(x, b)
    /\ \A b : Shows(message.blocks, b) => \E x : IsIn(x, items) /\ Stands(x, b)
    /\ InOrder(items, ItemOrder(backend, message.role))

\* Original output is only told from a carrier of that model.
FromCarrier(items, blocks, model) ==
    \A x : IsIn(x, items) /\ x.from = "output" =>
        \E b : IsIn(b, blocks) /\ b.kind = "carrier" /\ b.model = model

\* What the blocks of some kinds, and the others, are.
LEMMA PickedBlocks ==
    ASSUME NEW S, NEW blocks \in Seq(S), NEW kinds
    PROVE  /\ Only(blocks, kinds) \in Seq(S)
           /\ \A b : IsIn(b, Only(blocks, kinds)) <=> IsIn(b, blocks) /\ b.kind \in kinds
           /\ \A R : InOrder(blocks, R) => InOrder(Only(blocks, kinds), R)
           /\ Without(blocks, kinds) \in Seq(S)
           /\ \A b : IsIn(b, Without(blocks, kinds)) <=> IsIn(b, blocks) /\ b.kind \notin kinds
           /\ \A R : InOrder(blocks, R) => InOrder(Without(blocks, kinds), R)
<1>1. PICK n \in Nat : n = Len(blocks) /\ DOMAIN blocks = 1..n /\ \A i \in 1..n : blocks[i] \in S
  OBVIOUS
<1>2. PICK f : f = [b \in DOMAIN blocks |-> IF blocks[b].kind \in kinds THEN <<blocks[b]>> ELSE <<>>]
  OBVIOUS
<1>3. PICK g : g = [b \in DOMAIN blocks |-> IF blocks[b].kind \in kinds THEN <<>> ELSE <<blocks[b]>>]
  OBVIOUS
<1>4. \A e \in S : <<e>> \in Seq(S) /\ <<e>> # <<>>
  OBVIOUS
<1>5. <<>> \in Seq(S)
  OBVIOUS
<1>6. f \in Seq(Seq(S)) /\ Len(f) = n
  <2>1. f = [i \in 1..n |-> f[i]] /\ \A i \in 1..n : f[i] \in Seq(S)
    BY <1>1, <1>2, <1>4, <1>5
  <2>. QED
    BY <2>1, PartsSeq
<1>7. g \in Seq(Seq(S)) /\ Len(g) = n
  <2>1. g = [i \in 1..n |-> g[i]] /\ \A i \in 1..n : g[i] \in Seq(S)
    BY <1>1, <1>3, <1>4, <1>5
  <2>. QED
    BY <2>1, PartsSeq
<1>8. /\ \A i \in 1..Len(blocks) : f[i] = <<>> \/ f[i] = <<blocks[i]>>
      /\ \A i \in 1..Len(blocks) : f[i] # <<>> <=> blocks[i].kind \in kinds
      /\ \A i \in 1..Len(blocks) : g[i] = <<>> \/ g[i] = <<blocks[i]>>
      /\ \A i \in 1..Len(blocks) : g[i] # <<>> <=> blocks[i].kind \notin kinds
  BY <1>1, <1>2, <1>3, <1>4
<1>9. /\ FlattenSeq(f) \in Seq(S)
      /\ \A x : IsIn(x, FlattenSeq(f)) <=> \E i \in 1..Len(blocks) : f[i] # <<>> /\ blocks[i] = x
      /\ \A R : InOrder(blocks, R) => InOrder(FlattenSeq(f), R)
  <2>1. Len(f) = Len(blocks)
    BY <1>1, <1>6
  <2>. QED
    BY <1>6, <1>8, <2>1, PickedElements, ZenonT(30)
<1>10. /\ FlattenSeq(g) \in Seq(S)
       /\ \A x : IsIn(x, FlattenSeq(g)) <=> \E i \in 1..Len(blocks) : g[i] # <<>> /\ blocks[i] = x
       /\ \A R : InOrder(blocks, R) => InOrder(FlattenSeq(g), R)
  <2>1. Len(g) = Len(blocks)
    BY <1>1, <1>7
  <2>. QED
    BY <1>7, <1>8, <2>1, PickedElements, ZenonT(30)
<1>11. Only(blocks, kinds) = FlattenSeq(f) /\ Without(blocks, kinds) = FlattenSeq(g)
  BY <1>2, <1>3 DEF Only, Without
<1>12. \A b : IsIn(b, FlattenSeq(f)) <=> IsIn(b, blocks) /\ b.kind \in kinds
  BY <1>8, <1>9 DEF IsIn
<1>13. \A b : IsIn(b, FlattenSeq(g)) <=> IsIn(b, blocks) /\ b.kind \notin kinds
  BY <1>8, <1>10 DEF IsIn
<1>. QED
  BY <1>9, <1>10, <1>11, <1>12, <1>13

\* Items that stand one by one for the blocks a message shows, in an order the
\* backend may tell them in, tell the message.
TellableOrder(backend, role) ==
    {p \in SaidBlock \X SaidBlock :
        \/ p[1].at[2] < p[2].at[2]
        \/ CallLast(backend, role, p[1].kind = "tool_use", p[2].kind = "tool_use")}

LEMMA OneByOne ==
    ASSUME NEW message, NEW backend, NEW shown \in Seq(SaidBlock), NEW items \in Seq(UpItem),
           \A b : IsIn(b, shown) <=> Shows(message.blocks, b),
           InOrder(shown, TellableOrder(backend, message.role)),
           Len(items) = Len(shown), \A i \in 1..Len(shown) : Stands(items[i], shown[i])
    PROVE  Tells(items, message, backend)
<1>1. ASSUME NEW x, IsIn(x, items) PROVE \E b : Shows(message.blocks, b) /\ Stands(x, b)
  <2>1. PICK i \in 1..Len(shown) : items[i] = x
    BY <1>1 DEF IsIn
  <2>2. IsIn(shown[i], shown)
    BY DEF IsIn
  <2>. QED
    BY <2>1, <2>2
<1>2. ASSUME NEW b, Shows(message.blocks, b) PROVE \E x : IsIn(x, items) /\ Stands(x, b)
  <2>1. PICK i \in 1..Len(shown) : shown[i] = b
    BY <1>2 DEF IsIn
  <2>2. IsIn(items[i], items)
    BY DEF IsIn
  <2>. QED
    BY <2>1, <2>2
<1>3. InOrder(items, ItemOrder(backend, message.role))
  <2>. SUFFICES ASSUME NEW i \in 1..Len(items), NEW j \in 1..Len(items), i < j
                PROVE  <<items[i], items[j]>> \in ItemOrder(backend, message.role)
    BY DEF InOrder
  <2>1. <<shown[i], shown[j]>> \in TellableOrder(backend, message.role)
    BY DEF InOrder
  <2>2. Stands(items[i], shown[i]) /\ Stands(items[j], shown[j])
    OBVIOUS
  <2>3. items[i] \in UpItem /\ items[j] \in UpItem
    OBVIOUS
  <2>4. PICK a, b, x, y : a = items[i] /\ b = items[j] /\ x = shown[i] /\ y = shown[j]
    OBVIOUS
  <2>5. <<a, b>> \in ItemOrder(backend, message.role)
    <3>1. \/ x.at[2] < y.at[2]
          \/ CallLast(backend, message.role, x.kind = "tool_use", y.kind = "tool_use")
      BY <2>1, <2>4 DEF TellableOrder
    <3>2. CASE x.at[2] < y.at[2]
      BY <2>2, <2>3, <2>4, <3>2 DEF Stands, ItemOrder
    <3>3. CASE CallLast(backend, message.role, x.kind = "tool_use", y.kind = "tool_use")
      BY <2>2, <2>3, <2>4, <3>3 DEF Stands, ItemOrder, CallLast
    <3>. QED
      BY <3>1, <3>2, <3>3
  <2>. QED
    BY <2>4, <2>5
<1>. QED
  BY <1>1, <1>2, <1>3 DEF Tells

\* What a message of the conversation is like: it was said in that place, a user
\* tells texts and results, an answer no results, and a carrier is bound to the
\* model that gave the answer.
Placed(m, message, by) ==
    /\ \A b : Shows(message.blocks, b) => b.at[1] = m
    /\ InOrder(message.blocks, BlockOrder)
    /\ message.role = "user" =>
          \A b : IsIn(b, message.blocks) => b.kind \in {"text", "tool_result"}
    /\ message.role = "assistant" => \A b : IsIn(b, message.blocks) => b.kind # "tool_result"
    /\ \A b : IsIn(b, message.blocks) /\ b.kind = "carrier" => b.model = by.model

\* The blocks a message shows, as a sequence.
LEMMA ShownBlocks ==
    ASSUME NEW blocks \in Seq(Block)
    PROVE  /\ Visible(blocks) \in Seq(SaidBlock)
           /\ \A b : IsIn(b, Visible(blocks)) <=> Shows(blocks, b)
           /\ \A R : InOrder(blocks, R) => InOrder(Visible(blocks), R)
<1>1. /\ Visible(blocks) \in Seq(Block)
      /\ \A b : IsIn(b, Visible(blocks)) <=> IsIn(b, blocks) /\ b.kind \notin {"carrier"}
      /\ \A R : InOrder(blocks, R) => InOrder(Visible(blocks), R)
  BY PickedBlocks DEF Visible
<1>2. PICK s \in Seq(Block) : s = Visible(blocks)
  BY <1>1
<1>3. \A i \in 1..Len(s) : s[i] \in SaidBlock
  <2>. SUFFICES ASSUME NEW i \in 1..Len(s) PROVE s[i] \in SaidBlock
    OBVIOUS
  <2>1. IsIn(s[i], s)
    BY DEF IsIn
  <2>2. s[i] \in Block /\ s[i].kind # "carrier"
    BY <1>1, <1>2, <2>1
  <2>. QED
    BY <2>2, BlockSorts
<1>4. s \in Seq(SaidBlock)
  BY <1>3
<1>. QED
  BY <1>1, <1>2, <1>4 DEF Shows

\* Blocks without carriers are said.
LEMMA SaidBlocks ==
    ASSUME NEW blocks \in Seq(Block), \A b : IsIn(b, blocks) => b.kind # "carrier"
    PROVE  blocks \in Seq(SaidBlock) /\ \A b : IsIn(b, blocks) <=> Shows(blocks, b)
<1>1. \A i \in 1..Len(blocks) : blocks[i] \in SaidBlock
  <2>. SUFFICES ASSUME NEW i \in 1..Len(blocks) PROVE blocks[i] \in SaidBlock
    OBVIOUS
  <2>1. IsIn(blocks[i], blocks)
    BY DEF IsIn
  <2>2. blocks[i] \in Block /\ blocks[i].kind # "carrier"
    BY <2>1
  <2>. QED
    BY <2>2, BlockSorts
<1>2. blocks \in Seq(SaidBlock)
  BY <1>1
<1>. QED
  BY <1>2 DEF Shows

\* As they were said, blocks can be told to any backend.
LEMMA SaidOrder ==
    ASSUME NEW shown \in Seq(SaidBlock), InOrder(shown, BlockOrder), NEW backend, NEW role
    PROVE  InOrder(shown, TellableOrder(backend, role))
<1>. SUFFICES ASSUME NEW i \in 1..Len(shown), NEW j \in 1..Len(shown), i < j
              PROVE  <<shown[i], shown[j]>> \in TellableOrder(backend, role)
  BY DEF InOrder
<1>1. <<shown[i], shown[j]>> \in BlockOrder
  BY DEF InOrder
<1>2. shown[i] \in SaidBlock /\ shown[j] \in SaidBlock
  OBVIOUS
<1>3. PICK x, y : x = shown[i] /\ y = shown[j]
  OBVIOUS
<1>4. x \in SaidBlock /\ y \in SaidBlock /\ Later(x, y)
  BY <1>1, <1>2, <1>3 DEF BlockOrder
<1>5. x.kind # "carrier" /\ y.kind # "carrier"
  BY <1>4 DEF SaidBlock, Shown
<1>6. <<x, y>> \in TellableOrder(backend, role)
  BY <1>4, <1>5 DEF TellableOrder, Later
<1>. QED
  BY <1>3, <1>6

\* The items blocks are copied to.
LEMMA ToldItem ==
    ASSUME NEW b \in SaidBlock, NEW from \in {"blocks", "user"}
    PROVE  LET x == Item(from, ItemKind(b), b)
           IN  x \in UpItem /\ x.from = from /\ Stands(x, b)
<1>1. /\ b.kind \in Shown /\ b.id \in Id /\ b.at \in Coordinate
      /\ b.about \in Coordinate \cup {Null} /\ b.mark \in BOOLEAN
  BY DEF SaidBlock
<1>2. CASE b.kind = "tool_use"
  BY <1>1, <1>2 DEF Item, ItemKind, UpItem, Stands
<1>3. CASE b.kind = "tool_result"
  BY <1>1, <1>3 DEF Item, ItemKind, UpItem, Stands
<1>4. CASE b.kind # "tool_use" /\ b.kind # "tool_result"
  <2>1. ItemKind(b) = b.kind
    BY <1>4 DEF ItemKind
  <2>2. b.kind # "function_call" /\ b.kind # "function_call_output"
    BY <1>1 DEF Shown
  <2>. QED
    BY <1>1, <1>4, <2>1, <2>2 DEF Item, UpItem, Stands
<1>. QED
  BY <1>2, <1>3, <1>4

\* A sequence made element by element.
LEMMA MadeSeq ==
    ASSUME NEW S, NEW s, NEW n \in Nat, s = [i \in 1..n |-> s[i]], \A i \in 1..n : s[i] \in S
    PROVE  s \in Seq(S) /\ Len(s) = n
OBVIOUS

LEMMA ToldItems ==
    ASSUME NEW shown \in Seq(SaidBlock), NEW from \in {"blocks", "user"}
    PROVE  /\ Told(from, shown) \in Seq(UpItem) /\ Len(Told(from, shown)) = Len(shown)
           /\ \A i \in 1..Len(shown) : Stands(Told(from, shown)[i], shown[i])
           /\ \A x : IsIn(x, Told(from, shown)) => x.from = from
<1>1. PICK n \in Nat : n = Len(shown) /\ DOMAIN shown = 1..n /\ \A i \in 1..n : shown[i] \in SaidBlock
  OBVIOUS
<1>2. PICK s : s = Told(from, shown)
  OBVIOUS
<1>3. s = [i \in 1..n |-> s[i]] /\ \A i \in 1..n : s[i] = Item(from, ItemKind(shown[i]), shown[i])
  BY <1>1, <1>2 DEF Told
<1>4. \A i \in 1..n : s[i] \in UpItem /\ s[i].from = from /\ Stands(s[i], shown[i])
  BY <1>1, <1>3, ToldItem
<1>5. s \in Seq(UpItem) /\ Len(s) = n
  BY <1>3, <1>4, MadeSeq
<1>. QED
  BY <1>1, <1>2, <1>4, <1>5 DEF IsIn

\* Blocks copied as they were said tell the message.
LEMMA CopiedTells ==
    ASSUME NEW message \in Message, InOrder(message.blocks, BlockOrder), NEW backend,
           NEW from \in {"blocks", "user"}, NEW shown, NEW model,
           \/ shown = Visible(message.blocks)
           \/ shown = message.blocks /\ \A b : IsIn(b, message.blocks) => b.kind # "carrier"
    PROVE  /\ Tells(Told(from, shown), message, backend)
           /\ FromCarrier(Told(from, shown), message.blocks, model)
<1>0. message.blocks \in Seq(Block)
  BY DEF Message
<1>1. /\ shown \in Seq(SaidBlock) /\ InOrder(shown, BlockOrder)
      /\ \A b : IsIn(b, shown) <=> Shows(message.blocks, b)
  BY <1>0, ShownBlocks, SaidBlocks
<1>2. InOrder(shown, TellableOrder(backend, message.role))
  BY <1>1, SaidOrder
<1>3. PICK items : items = Told(from, shown)
  OBVIOUS
<1>4. /\ items \in Seq(UpItem) /\ Len(items) = Len(shown)
      /\ \A i \in 1..Len(shown) : Stands(items[i], shown[i])
      /\ \A x : IsIn(x, items) => x.from = from
  BY <1>1, <1>3, ToldItems
<1>5. Tells(items, message, backend)
  BY <1>1, <1>2, <1>4, OneByOne
<1>6. FromCarrier(items, message.blocks, model)
  BY <1>4 DEF FromCarrier
<1>. QED
  BY <1>3, <1>5, <1>6

\* A carried item is the item the client was shown as a block.
LEMMA CarriedItem ==
    ASSUME NEW o \in Outcome, NEW b, b = Said(BlockKind(o), o.id, o.at)
    PROVE  LET x == Item("output", o.kind, o)
           IN  x \in UpItem /\ Stands(x, b)
<1>1. /\ o.kind \in OutputKind.responses /\ o.id \in Id /\ o.at \in Coordinate
      /\ o.about = Null /\ o.mark \in BOOLEAN
  BY DEF Outcome
<1>2. b.kind = BlockKind(o) /\ b.id = o.id /\ b.at = o.at /\ b.about = Null
  BY DEF Said
<1>3. o.kind \in {"reasoning", "output_text", "refusal", "function_call"}
  BY <1>1 DEF OutputKind
<1>4. /\ o.kind = "function_call" <=> BlockKind(o) = "tool_use"
      /\ o.kind # "function_call_output" /\ BlockKind(o) # "tool_result"
  <2>1. CASE o.kind = "function_call"
    BY <2>1 DEF BlockKind
  <2>2. CASE o.kind \in {"output_text", "refusal"}
    <3>1. o.kind # "function_call"
      BY <2>2
    <3>2. BlockKind(o) = "text"
      BY <2>2, <3>1 DEF BlockKind
    <3>. QED
      BY <2>2, <3>1, <3>2
  <2>3. CASE o.kind = "reasoning"
    BY <2>3 DEF BlockKind
  <2>. QED
    BY <1>3, <2>1, <2>2, <2>3
<1>. QED
  BY <1>1, <1>2, <1>4 DEF Item, UpItem, Stands

\* The output of a carrier that is accepted tells the message it came with.
LEMMA CarriedTells ==
    ASSUME NEW message \in Message, InOrder(message.blocks, BlockOrder), NEW backend,
           NEW output \in Seq(Outcome), Visible(message.blocks) = VisibleBlocks(output)
    PROVE  Tells(Carried(output), message, backend)
<1>1. PICK shown \in Seq(SaidBlock) :
         /\ shown = Visible(message.blocks) /\ InOrder(shown, BlockOrder)
         /\ \A b : IsIn(b, shown) <=> Shows(message.blocks, b)
  <2>1. message.blocks \in Seq(Block)
    BY DEF Message
  <2>. QED
    BY <2>1, ShownBlocks
<1>2. PICK n \in Nat : n = Len(output) /\ DOMAIN output = 1..n /\ \A i \in 1..n : output[i] \in Outcome
  OBVIOUS
<1>3. /\ shown = [i \in 1..n |-> Said(BlockKind(output[i]), output[i].id, output[i].at)]
      /\ Len(shown) = n
  <2>1. shown = [i \in 1..n |-> Said(BlockKind(output[i]), output[i].id, output[i].at)]
    BY <1>1, <1>2 DEF VisibleBlocks
  <2>2. shown = [i \in 1..n |-> shown[i]] /\ \A i \in 1..n : shown[i] \in {shown[j] : j \in 1..n}
    BY <2>1
  <2>3. Len(shown) = n
    BY <2>2, MadeSeq
  <2>. QED
    BY <2>1, <2>3
<1>4. PICK s : s = Carried(output)
  OBVIOUS
<1>5. s = [i \in 1..n |-> s[i]] /\ \A i \in 1..n : s[i] = Item("output", output[i].kind, output[i])
  BY <1>2, <1>4 DEF Carried
<1>6. \A i \in 1..n : s[i] \in UpItem /\ Stands(s[i], shown[i])
  <2>. SUFFICES ASSUME NEW i \in 1..n PROVE s[i] \in UpItem /\ Stands(s[i], shown[i])
    OBVIOUS
  <2>1. output[i] \in Outcome
    BY <1>2
  <2>2. shown[i] = Said(BlockKind(output[i]), output[i].id, output[i].at)
    BY <1>3
  <2>. QED
    BY <1>5, <2>1, <2>2, CarriedItem
<1>7. s \in Seq(UpItem) /\ Len(s) = n
  BY <1>5, <1>6, MadeSeq
<1>8. InOrder(shown, TellableOrder(backend, message.role))
  BY <1>1, SaidOrder
<1>9. Len(s) = Len(shown) /\ \A i \in 1..Len(shown) : Stands(s[i], shown[i])
  BY <1>3, <1>6, <1>7
<1>10. Tells(s, message, backend)
  BY <1>1, <1>7, <1>8, <1>9, OneByOne
<1>. QED
  BY <1>4, <1>10

\* _responses_assistant_items.
LEMMA AssistantTells ==
    ASSUME NEW message \in Message, InOrder(message.blocks, BlockOrder), NEW expected,
           AssistantItems(message.blocks, expected) # Null
    PROVE  /\ Tells(AssistantItems(message.blocks, expected), message, "responses")
           /\ FromCarrier(AssistantItems(message.blocks, expected), message.blocks, expected)
<1>0. PICK blocks \in Seq(Block) : blocks = message.blocks
  BY DEF Message
<1>1. PICK carriers \in Seq(Block) :
         /\ carriers = Carriers(blocks)
         /\ \A b : IsIn(b, carriers) <=> IsIn(b, blocks) /\ b.kind \in {"carrier"}
  BY PickedBlocks DEF Carriers
<1>2. CASE carriers # <<>>
  <2>1. /\ Len(carriers) = 1 /\ carriers[1].model = expected
        /\ Visible(blocks) = VisibleBlocks(carriers[1].output)
        /\ AssistantItems(blocks, expected) = Carried(carriers[1].output)
    BY <1>0, <1>1, <1>2 DEF AssistantItems
  <2>2. PICK c : c = carriers[1]
    OBVIOUS
  <2>3. IsIn(c, carriers) /\ c \in Block
    <3>1. 1 \in 1..Len(carriers)
      BY <2>1
    <3>2. carriers[1] \in Block
      BY <3>1
    <3>. QED
      BY <2>2, <3>1, <3>2 DEF IsIn
  <2>4. IsIn(c, blocks) /\ c.kind = "carrier"
    BY <1>1, <2>3
  <2>5. c.output \in Seq(Outcome)
    BY <2>3, <2>4, BlockSorts DEF CarrierBlock
  <2>6. Tells(Carried(c.output), message, "responses")
    BY <1>0, <2>1, <2>2, <2>5, CarriedTells
  <2>7. FromCarrier(Carried(c.output), blocks, expected)
    BY <2>1, <2>2, <2>4 DEF FromCarrier
  <2>. QED
    BY <1>0, <2>1, <2>2, <2>6, <2>7
<1>3. CASE carriers = <<>>
  <2>1. AssistantItems(blocks, expected) = Told("blocks", Visible(blocks))
    BY <1>0, <1>1, <1>3 DEF AssistantItems
  <2>. QED
    BY <1>0, <2>1, CopiedTells
<1>. QED
  BY <1>2, <1>3

\* _assistant_message: the calls come last.
LEMMA ChatAssistantTells ==
    ASSUME NEW message \in Message, InOrder(message.blocks, BlockOrder), message.role = "assistant",
           \A b : IsIn(b, message.blocks) => b.kind # "carrier", NEW model
    PROVE  /\ Tells(AssistantMessage(message.blocks), message, "chat_completions")
           /\ FromCarrier(AssistantMessage(message.blocks), message.blocks, model)
<1>0. PICK blocks : blocks = message.blocks
  OBVIOUS
<1>1. /\ blocks \in Seq(SaidBlock)
      /\ \A b : IsIn(b, blocks) <=> Shows(message.blocks, b)
  <2>1. message.blocks \in Seq(Block)
    BY DEF Message
  <2>. QED
    BY <1>0, <2>1, SaidBlocks
<1>2. InOrder(blocks, TellableOrder("chat_completions", "assistant"))
  BY <1>0, <1>1, SaidOrder
<1>3. PICK a \in Seq(SaidBlock) :
         /\ a = Without(blocks, {"tool_use"})
         /\ \A b : IsIn(b, a) <=> IsIn(b, blocks) /\ b.kind \notin {"tool_use"}
         /\ \A R : InOrder(blocks, R) => InOrder(a, R)
  BY <1>1, PickedBlocks
<1>4. PICK c \in Seq(SaidBlock) :
         /\ c = Calls(blocks)
         /\ \A b : IsIn(b, c) <=> IsIn(b, blocks) /\ b.kind \in {"tool_use"}
         /\ \A R : InOrder(blocks, R) => InOrder(c, R)
  BY <1>1, PickedBlocks DEF Calls
<1>5. PICK shown : shown = a \o c
  OBVIOUS
<1>6. Splits(shown, a, c)
  BY <1>5 DEF Splits
<1>7. shown \in Seq(SaidBlock)
  BY <1>6, ElementsOfSplit
<1>8. \A b : IsIn(b, shown) <=> Shows(message.blocks, b)
  <2>. SUFFICES ASSUME NEW b PROVE IsIn(b, shown) <=> IsIn(b, blocks)
    BY <1>1
  <2>1. IsIn(b, shown) <=> IsIn(b, a) \/ IsIn(b, c)
    BY <1>6, InSplit
  <2>. QED
    BY <1>3, <1>4, <2>1
<1>9. InOrder(shown, TellableOrder("chat_completions", "assistant"))
  <2>1. OneThenOther(a, c, TellableOrder("chat_completions", "assistant"))
    <3>. SUFFICES ASSUME NEW i \in 1..Len(a), NEW j \in 1..Len(c)
                  PROVE  <<a[i], c[j]>> \in TellableOrder("chat_completions", "assistant")
      BY DEF OneThenOther
    <3>1. IsIn(a[i], a) /\ IsIn(c[j], c) /\ a[i] \in SaidBlock /\ c[j] \in SaidBlock
      BY DEF IsIn
    <3>2. a[i].kind # "tool_use" /\ c[j].kind = "tool_use"
      BY <1>3, <1>4, <3>1
    <3>3. PICK x, y : x = a[i] /\ y = c[j]
      OBVIOUS
    <3>4. <<x, y>> \in TellableOrder("chat_completions", "assistant")
      BY <3>1, <3>2, <3>3 DEF TellableOrder, CallLast
    <3>. QED
      BY <3>3, <3>4
  <2>2. InOrder(a, TellableOrder("chat_completions", "assistant"))
    BY <1>2, <1>3
  <2>3. InOrder(c, TellableOrder("chat_completions", "assistant"))
    BY <1>2, <1>4
  <2>. QED
    BY <1>6, <2>1, <2>2, <2>3, OrderOfSplit
<1>10. PICK items : items = Told("blocks", shown)
  OBVIOUS
<1>11. /\ items \in Seq(UpItem) /\ Len(items) = Len(shown)
       /\ \A i \in 1..Len(shown) : Stands(items[i], shown[i])
       /\ \A x : IsIn(x, items) => x.from = "blocks"
  BY <1>7, <1>10, ToldItems
<1>12. Tells(items, message, "chat_completions")
  BY <1>7, <1>8, <1>9, <1>11, OneByOne
<1>13. FromCarrier(items, message.blocks, model)
  BY <1>11 DEF FromCarrier
<1>14. items = AssistantMessage(message.blocks)
  BY <1>0, <1>3, <1>4, <1>5, <1>10 DEF AssistantMessage
<1>. QED
  BY <1>12, <1>13, <1>14

-----------------------------------------------------------------------------
(* A request.                                                              *)

\* What validation lets through.
LEMMA ValidBlocks ==
    ASSUME NEW messages \in Seq(Message), NEW backend, ValidRequest(messages, backend),
           NEW m \in 1..Len(messages), NEW b, IsIn(b, messages[m].blocks)
    PROVE  ValidBlock(messages[m].role, b, backend)
<1>1. messages[m].blocks \in Seq(Block)
  <2>1. messages[m] \in Message
    OBVIOUS
  <2>. QED
    BY <2>1 DEF Message
<1>2. PICK i \in 1..Len(messages[m].blocks) : messages[m].blocks[i] = b
  BY DEF IsIn
<1>3. m \in DOMAIN messages /\ i \in DOMAIN messages[m].blocks
  BY <1>1
<1>4. <<m, i>> \in Places(messages)
  BY <1>3 DEF Places
<1>5. ValidBlock(messages[m].role, At(messages, <<m, i>>), backend)
  BY <1>4 DEF ValidRequest
<1>. QED
  BY <1>2, <1>5 DEF At

\* The items of each message, put together.
TellsAll(parts, messages, backend, model) ==
    /\ parts \in Seq(Seq(UpItem)) /\ Len(parts) = Len(messages)
    /\ \A m \in 1..Len(messages) :
          /\ Tells(parts[m], messages[m], backend)
          /\ FromCarrier(parts[m], messages[m].blocks, model)

LEMMA ResponsesTells ==
    ASSUME NEW messages \in Seq(Message), NEW expected,
           \A m \in 1..Len(messages) : \E by : Placed(m, messages[m], by),
           ResponsesItems(messages, expected) # Null
    PROVE  \E parts : /\ TellsAll(parts, messages, "responses", expected)
                      /\ ResponsesItems(messages, expected) = FlattenSeq(parts)
<1>. DEFINE items(m) == IF messages[m].role = "assistant"
                        THEN AssistantItems(messages[m].blocks, expected)
                        ELSE Told("user", messages[m].blocks)
<1>1. PICK n \in Nat : n = Len(messages) /\ DOMAIN messages = 1..n
  OBVIOUS
<1>2. /\ \A m \in 1..n : items(m) # Null
      /\ ResponsesItems(messages, expected) = FlattenSeq([m \in 1..n |-> items(m)])
  BY <1>1 DEF ResponsesItems
<1>3. PICK parts : parts = [m \in 1..n |-> items(m)]
  OBVIOUS
<1>4. ASSUME NEW m \in 1..n
      PROVE  /\ Tells(items(m), messages[m], "responses")
             /\ FromCarrier(items(m), messages[m].blocks, expected)
  <2>1. PICK message \in Message : message = messages[m]
    BY <1>1
  <2>2. InOrder(message.blocks, BlockOrder)
    BY <1>1, <2>1 DEF Placed
  <2>3. CASE message.role = "assistant"
    <3>1. items(m) = AssistantItems(message.blocks, expected)
      BY <2>1, <2>3
    <3>2. AssistantItems(message.blocks, expected) # Null
      BY <1>2, <3>1
    <3>. HIDE DEF items
    <3>. QED
      BY <2>1, <2>2, <3>1, <3>2, AssistantTells
  <2>4. CASE message.role # "assistant"
    <3>1. items(m) = Told("user", message.blocks)
      BY <2>1, <2>4
    <3>2. message.role = "user"
      BY <2>4 DEF Message
    <3>3. \A b : IsIn(b, message.blocks) => b.kind # "carrier"
      BY <1>1, <2>1, <3>2 DEF Placed
    <3>. HIDE DEF items
    <3>. QED
      BY <2>1, <2>2, <3>1, <3>3, CopiedTells
  <2>. QED
    BY <2>3, <2>4
<1>5. TellsAll(parts, messages, "responses", expected)
  <2>. HIDE DEF items
  <2>1. parts = [m \in 1..n |-> parts[m]] /\ \A m \in 1..n : parts[m] = items(m)
    BY <1>3
  <2>2. \A m \in 1..n : parts[m] \in Seq(UpItem)
    BY <1>4, <2>1 DEF Tells
  <2>3. parts \in Seq(Seq(UpItem)) /\ Len(parts) = n
    BY <2>1, <2>2, MadeSeq
  <2>. QED
    BY <1>1, <1>4, <2>1, <2>3 DEF TellsAll
<1>. QED
  BY <1>2, <1>3, <1>5

LEMMA ChatTells ==
    ASSUME NEW messages \in Seq(Message), NEW expected,
           \A m \in 1..Len(messages) : \E by : Placed(m, messages[m], by),
           ValidRequest(messages, "chat_completions")
    PROVE  \E parts : /\ TellsAll(parts, messages, "chat_completions", expected)
                      /\ ChatMessages(messages) = FlattenSeq(parts)
<1>. DEFINE items(m) == IF messages[m].role = "assistant"
                        THEN AssistantMessage(messages[m].blocks)
                        ELSE UserMessages(messages[m].blocks)
<1>1. PICK n \in Nat : n = Len(messages) /\ DOMAIN messages = 1..n
  OBVIOUS
<1>2. ChatMessages(messages) = FlattenSeq([m \in 1..n |-> items(m)])
  BY <1>1 DEF ChatMessages
<1>3. PICK parts : parts = [m \in 1..n |-> items(m)]
  OBVIOUS
<1>4. ASSUME NEW m \in 1..n
      PROVE  /\ Tells(items(m), messages[m], "chat_completions")
             /\ FromCarrier(items(m), messages[m].blocks, expected)
  <2>1. PICK message \in Message : message = messages[m]
    BY <1>1
  <2>2. InOrder(message.blocks, BlockOrder)
    BY <1>1, <2>1 DEF Placed
  <2>3. \A b : IsIn(b, message.blocks) => b.kind # "carrier"
    <3>. SUFFICES ASSUME NEW b, IsIn(b, messages[m].blocks) PROVE b.kind # "carrier"
      BY <2>1
    <3>1. ValidBlock(messages[m].role, b, "chat_completions")
      BY <1>1, ValidBlocks
    <3>. QED
      BY <3>1 DEF ValidBlock
  <2>4. CASE message.role = "assistant"
    <3>1. items(m) = AssistantMessage(message.blocks)
      BY <2>1, <2>4
    <3>. HIDE DEF items
    <3>. QED
      BY <2>1, <2>2, <2>3, <2>4, <3>1, ChatAssistantTells
  <2>5. CASE message.role # "assistant"
    <3>1. items(m) = Told("user", message.blocks)
      BY <2>1, <2>5 DEF UserMessages
    <3>. HIDE DEF items
    <3>. QED
      BY <2>1, <2>2, <2>3, <3>1, CopiedTells
  <2>. QED
    BY <2>4, <2>5
<1>5. TellsAll(parts, messages, "chat_completions", expected)
  <2>. HIDE DEF items
  <2>1. parts = [m \in 1..n |-> parts[m]] /\ \A m \in 1..n : parts[m] = items(m)
    BY <1>3
  <2>2. \A m \in 1..n : parts[m] \in Seq(UpItem)
    BY <1>4, <2>1 DEF Tells
  <2>3. parts \in Seq(Seq(UpItem)) /\ Len(parts) = n
    BY <2>1, <2>2, MadeSeq
  <2>. QED
    BY <1>1, <1>4, <2>1, <2>3 DEF TellsAll
<1>. QED
  BY <1>2, <1>3, <1>5

\* The order of the items of a request.
Precedes(messages, backend) ==
    {p \in UpItem \X UpItem :
        \/ p[1].at[1] < p[2].at[1]
        \/ /\ p[1].at[1] = p[2].at[1]
           /\ p \in ItemOrder(backend, messages[p[1].at[1]].role)}

\* What the upstream is told of a conversation: all that its messages show, each
\* thing once, in order, and original output only from a carrier of that model.
Faithful(items, messages, backend, model) ==
    /\ items \in Seq(UpItem)
    /\ \A x : IsIn(x, items) => \E m \in 1..Len(messages) : \E b :
                 Shows(messages[m].blocks, b) /\ Stands(x, b) /\ x.at[1] = m
    /\ \A m \in 1..Len(messages) : \A b :
          Shows(messages[m].blocks, b) => \E x : IsIn(x, items) /\ Stands(x, b)
    /\ InOrder(items, Precedes(messages, backend))
    /\ \A x : IsIn(x, items) /\ x.from = "output" => \E b :
          /\ IsIn(b, messages[x.at[1]].blocks) /\ b.kind = "carrier" /\ b.model = model

LEMMA PartsAreFaithful ==
    ASSUME NEW messages \in Seq(Message), NEW backend, NEW model, NEW parts,
           \A m \in 1..Len(messages) : \E by : Placed(m, messages[m], by),
           TellsAll(parts, messages, backend, model)
    PROVE  Faithful(FlattenSeq(parts), messages, backend, model)
<1>0. /\ parts \in Seq(Seq(UpItem)) /\ Len(parts) = Len(messages)
      /\ \A m \in 1..Len(messages) :
            Tells(parts[m], messages[m], backend) /\ FromCarrier(parts[m], messages[m].blocks, model)
  BY DEF TellsAll
<1>1. PICK items \in Seq(UpItem) : items = FlattenSeq(parts)
  BY <1>0, FlattenType
<1>2. \A x : IsIn(x, items) <=> \E m \in 1..Len(messages) : IsIn(x, parts[m])
  <2>. SUFFICES ASSUME NEW x
                PROVE  IsIn(x, items) <=> \E m \in 1..Len(messages) : IsIn(x, parts[m])
    OBVIOUS
  <2>1. IsIn(x, FlattenSeq(parts)) <=> \E m \in 1..Len(parts) : IsIn(x, parts[m])
    BY <1>0, InFlattened
  <2>. QED
    BY <1>0, <1>1, <2>1
<1>3. ASSUME NEW m \in 1..Len(messages), NEW x, IsIn(x, parts[m])
      PROVE  x.at[1] = m /\ \E b : Shows(messages[m].blocks, b) /\ Stands(x, b)
  <2>1. PICK b : Shows(messages[m].blocks, b) /\ Stands(x, b)
    BY <1>0, <1>3 DEF Tells
  <2>2. b.at[1] = m
    BY <2>1 DEF Placed
  <2>. QED
    BY <2>1, <2>2 DEF Stands
<1>4. \A x : IsIn(x, items) => \E m \in 1..Len(messages) : \E b :
                 Shows(messages[m].blocks, b) /\ Stands(x, b) /\ x.at[1] = m
  BY <1>2, <1>3, Zenon
<1>5. \A m \in 1..Len(messages) : \A b :
          Shows(messages[m].blocks, b) => \E x : IsIn(x, items) /\ Stands(x, b)
  BY <1>0, <1>2, Zenon DEF Tells
<1>6. \A x : IsIn(x, items) /\ x.from = "output" => \E b :
          /\ IsIn(b, messages[x.at[1]].blocks) /\ b.kind = "carrier" /\ b.model = model
  <2>. SUFFICES ASSUME NEW x, IsIn(x, items), x.from = "output"
                PROVE  \E b : /\ IsIn(b, messages[x.at[1]].blocks)
                              /\ b.kind = "carrier" /\ b.model = model
    OBVIOUS
  <2>1. PICK m \in 1..Len(messages) : IsIn(x, parts[m])
    BY <1>2
  <2>2. x.at[1] = m
    BY <1>3, <2>1
  <2>. QED
    BY <1>0, <2>1, <2>2 DEF FromCarrier
<1>7. \A m \in 1..Len(parts) : \A i \in 1..Len(parts[m]) :
         parts[m][i].at[1] = m /\ parts[m][i] \in UpItem
  <2>. SUFFICES ASSUME NEW m \in 1..Len(parts), NEW i \in 1..Len(parts[m])
                PROVE  parts[m][i].at[1] = m /\ parts[m][i] \in UpItem
    OBVIOUS
  <2>1. IsIn(parts[m][i], parts[m])
    BY DEF IsIn
  <2>2. parts[m] \in Seq(UpItem)
    BY <1>0
  <2>3. parts[m][i] \in UpItem
    BY <2>2
  <2>. QED
    BY <1>0, <1>3, <2>1, <2>3
<1>8. InOrder(items, Precedes(messages, backend))
  <2>1. \A m \in 1..Len(parts) : InOrder(parts[m], Precedes(messages, backend))
    <3>. SUFFICES ASSUME NEW m \in 1..Len(parts), NEW i \in 1..Len(parts[m]),
                         NEW j \in 1..Len(parts[m]), i < j
                  PROVE  <<parts[m][i], parts[m][j]>> \in Precedes(messages, backend)
      BY DEF InOrder
    <3>1. <<parts[m][i], parts[m][j]>> \in ItemOrder(backend, messages[m].role)
      BY <1>0 DEF Tells, InOrder
    <3>2. PICK x, y : x = parts[m][i] /\ y = parts[m][j]
      OBVIOUS
    <3>3. x.at[1] = m /\ y.at[1] = m /\ x \in UpItem /\ y \in UpItem
      BY <1>7, <3>2
    <3>4. <<x, y>> \in Precedes(messages, backend)
      BY <3>1, <3>2, <3>3 DEF Precedes
    <3>. QED
      BY <3>2, <3>4
  <2>2. \A k, l \in 1..Len(parts) :
           k < l => OneThenOther(parts[k], parts[l], Precedes(messages, backend))
    <3>. SUFFICES ASSUME NEW k \in 1..Len(parts), NEW l \in 1..Len(parts), k < l,
                         NEW i \in 1..Len(parts[k]), NEW j \in 1..Len(parts[l])
                  PROVE  <<parts[k][i], parts[l][j]>> \in Precedes(messages, backend)
      BY DEF OneThenOther
    <3>1. PICK x, y : x = parts[k][i] /\ y = parts[l][j]
      OBVIOUS
    <3>2. x.at[1] = k /\ y.at[1] = l /\ x \in UpItem /\ y \in UpItem
      BY <1>7, <3>1
    <3>3. <<x, y>> \in Precedes(messages, backend)
      BY <3>2 DEF Precedes
    <3>. QED
      BY <3>1, <3>3
  <2>. QED
    BY <1>0, <1>1, <2>1, <2>2, OrderOfFlattened
<1>. QED
  BY <1>1, <1>4, <1>5, <1>6, <1>8 DEF Faithful

\* A request that is translated tells the conversation.
LEMMA ConvertIsFaithful ==
    ASSUME NEW messages \in Seq(Message), NEW backend \in {"responses", "chat_completions"},
           NEW model, \A m \in 1..Len(messages) : \E by : Placed(m, messages[m], by),
           Convert(messages, backend, model) # Null
    PROVE  /\ Faithful(Convert(messages, backend, model), messages, backend, model)
           /\ ValidRequest(messages, backend)
<1>1. ValidRequest(messages, backend)
  BY DEF Convert
<1>2. CASE backend = "responses"
  <2>1. Convert(messages, backend, model) = ResponsesItems(messages, model)
    BY <1>1, <1>2 DEF Convert
  <2>2. PICK parts : /\ TellsAll(parts, messages, "responses", model)
                     /\ ResponsesItems(messages, model) = FlattenSeq(parts)
    BY <2>1, ResponsesTells
  <2>3. Faithful(FlattenSeq(parts), messages, "responses", model)
    BY <2>2, PartsAreFaithful
  <2>. QED
    BY <1>1, <1>2, <2>1, <2>2, <2>3
<1>3. CASE backend = "chat_completions"
  <2>1. Convert(messages, backend, model) = ChatMessages(messages)
    BY <1>1, <1>3 DEF Convert
  <2>2. PICK parts : /\ TellsAll(parts, messages, "chat_completions", model)
                     /\ ChatMessages(messages) = FlattenSeq(parts)
    BY <1>1, <1>3, ChatTells
  <2>3. Faithful(FlattenSeq(parts), messages, "chat_completions", model)
    BY <2>2, PartsAreFaithful
  <2>. QED
    BY <1>1, <1>3, <2>1, <2>2, <2>3
<1>. QED
  BY <1>2, <1>3

-----------------------------------------------------------------------------
(* Cache marks change nothing else.                                        *)

SameBlock(x, y) ==
    /\ x.kind = y.kind
    /\ IF x.kind = "carrier" THEN x.model = y.model /\ x.output = y.output
       ELSE x.id = y.id /\ x.at = y.at /\ x.about = y.about

\* Two messages differ in marks only.
SameMessage(a, b) ==
    /\ a.role = b.role /\ Len(a.blocks) = Len(b.blocks)
    /\ \A i \in 1..Len(a.blocks) : SameBlock(a.blocks[i], b.blocks[i])

\* Two conversations differ in marks only.
MarksDiffer(marked, messages) ==
    /\ marked \in Seq(Message) /\ Len(marked) = Len(messages)
    /\ \A m \in 1..Len(messages) : SameMessage(marked[m], messages[m])

LEMMA MarkedBlock ==
    ASSUME NEW x \in Block, NEW v \in BOOLEAN
    PROVE  [x EXCEPT !.mark = v] \in Block /\ SameBlock([x EXCEPT !.mark = v], x)
<1>1. CASE x.kind = "carrier"
  <2>1. x \in CarrierBlock
    BY <1>1, BlockSorts
  <2>. QED
    BY <1>1, <2>1 DEF CarrierBlock, SameBlock, Block
<1>2. CASE x.kind # "carrier"
  <2>1. x \in SaidBlock
    BY <1>2, BlockSorts
  <2>. QED
    BY <1>2, <2>1 DEF SaidBlock, SameBlock, Block
<1>. QED
  BY <1>1, <1>2

\* One block of one message is marked.
MarkOne(messages, a, b) == [messages EXCEPT ![a].blocks[b].mark = TRUE]

LEMMA OneMarked ==
    ASSUME NEW messages \in Seq(Message), NEW a, NEW b
    PROVE  MarksDiffer(MarkOne(messages, a, b), messages)
<1>1. PICK n \in Nat : n = Len(messages) /\ DOMAIN messages = 1..n /\ \A m \in 1..n : messages[m] \in Message
  OBVIOUS
<1>2. PICK marked : marked = MarkOne(messages, a, b)
  OBVIOUS
<1>3. marked = [m \in 1..n |-> marked[m]]
  BY <1>1, <1>2 DEF MarkOne
<1>4. ASSUME NEW m \in 1..n PROVE marked[m] \in Message /\ SameMessage(marked[m], messages[m])
  <2>0. PICK message \in Message : message = messages[m]
    BY <1>1
  <2>1. message.blocks \in Seq(Block) /\ message.role \in {"user", "assistant"}
    BY DEF Message
  <2>2. CASE m # a
    <3>1. marked[m] = message
      BY <1>1, <1>2, <2>0, <2>2 DEF MarkOne
    <3>2. SameMessage(message, message)
      BY DEF SameMessage, SameBlock
    <3>. QED
      BY <2>0, <3>1, <3>2
  <2>3. CASE m = a
    <3>1. PICK blocks : blocks = [message.blocks EXCEPT ![b].mark = TRUE]
      OBVIOUS
    <3>2. marked[m] = [message EXCEPT !.blocks = blocks]
      BY <1>1, <1>2, <2>0, <2>3, <3>1 DEF MarkOne
    <3>3. PICK k \in Nat : k = Len(message.blocks) /\ DOMAIN message.blocks = 1..k
                           /\ \A i \in 1..k : message.blocks[i] \in Block
      BY <2>1
    <3>4. blocks = [i \in 1..k |-> blocks[i]]
      BY <3>1, <3>3
    <3>5. \A i \in 1..k : blocks[i] \in Block /\ SameBlock(blocks[i], message.blocks[i])
      <4>. SUFFICES ASSUME NEW i \in 1..k
                    PROVE  blocks[i] \in Block /\ SameBlock(blocks[i], message.blocks[i])
        OBVIOUS
      <4>1. CASE i = b
        <5>1. blocks[i] = [message.blocks[i] EXCEPT !.mark = TRUE]
          BY <3>1, <3>3, <4>1
        <5>. QED
          BY <3>3, <5>1, MarkedBlock
      <4>2. CASE i # b
        <5>1. blocks[i] = message.blocks[i]
          BY <3>1, <3>3, <4>2
        <5>. QED
          BY <3>3, <5>1 DEF SameBlock
      <4>. QED
        BY <4>1, <4>2
    <3>6. blocks \in Seq(Block) /\ Len(blocks) = k
      BY <3>4, <3>5, MadeSeq
    <3>7. marked[m].role = message.role /\ marked[m].blocks = blocks /\ marked[m] \in Message
      BY <3>2, <3>6 DEF Message
    <3>. QED
      BY <2>0, <3>3, <3>5, <3>6, <3>7 DEF SameMessage
  <2>. QED
    BY <2>2, <2>3
<1>5. marked \in Seq(Message) /\ Len(marked) = n
  BY <1>3, <1>4, MadeSeq
<1>. QED
  BY <1>1, <1>2, <1>4, <1>5 DEF MarksDiffer

LEMMA MarksOnly ==
    ASSUME NEW messages \in Seq(Message)
    PROVE  MarksDiffer(WithMarks(messages), messages)
<1>. DEFINE wanted(role, blocks, b) ==
                \/ client.marks = "userTurns" /\ role = "user" /\ b = Len(blocks)
                \/ client.marks = "answers" /\ role = "assistant" /\ blocks[b].kind = "text"
            marked(role, blocks) ==
                [b \in DOMAIN blocks |-> [blocks[b] EXCEPT !.mark = wanted(role, blocks, b)]]
<1>0. PICK n \in Nat : n = Len(messages) /\ DOMAIN messages = 1..n /\ \A m \in 1..n : messages[m] \in Message
  OBVIOUS
<1>1. \A m \in 1..n : SameMessage(messages[m], messages[m])
  BY DEF SameMessage, SameBlock
<1>2. CASE client.marks = "topLevel"
  <2>1. \/ WithMarks(messages) = messages
        \/ \E a, b : WithMarks(messages) = MarkOne(messages, a, b)
    BY <1>2 DEF WithMarks, MarkTopLevel, MarkOne
  <2>2. CASE WithMarks(messages) = messages
    BY <1>0, <1>1, <2>2 DEF MarksDiffer
  <2>3. ASSUME NEW a, NEW b, WithMarks(messages) = MarkOne(messages, a, b)
        PROVE  MarksDiffer(WithMarks(messages), messages)
    BY <2>3, OneMarked
  <2>. QED
    BY <2>1, <2>2, <2>3
<1>3. CASE client.marks # "topLevel"
  <2>1. PICK s : s = WithMarks(messages)
    OBVIOUS
  <2>2. /\ s = [m \in 1..n |-> s[m]]
        /\ \A m \in 1..n : s[m] = [messages[m] EXCEPT !.blocks = marked(messages[m].role, messages[m].blocks)]
    BY <1>0, <1>3, <2>1 DEF WithMarks
  <2>3. ASSUME NEW m \in 1..n PROVE s[m] \in Message /\ SameMessage(s[m], messages[m])
    <3>1. PICK message \in Message : message = messages[m]
      BY <1>0
    <3>2. PICK blocks : blocks = marked(message.role, message.blocks)
      OBVIOUS
    <3>3. PICK k \in Nat : k = Len(message.blocks) /\ DOMAIN message.blocks = 1..k
                           /\ \A i \in 1..k : message.blocks[i] \in Block
      <4>1. message.blocks \in Seq(Block)
        BY DEF Message
      <4>. QED
        BY <4>1
    <3>4. /\ blocks = [i \in 1..k |-> blocks[i]]
          /\ \A i \in 1..k :
                blocks[i] = [message.blocks[i] EXCEPT !.mark = wanted(message.role, message.blocks, i)]
      BY <3>2, <3>3
    <3>5. \A i \in 1..k : blocks[i] \in Block /\ SameBlock(blocks[i], message.blocks[i])
      <4>. SUFFICES ASSUME NEW i \in 1..k
                    PROVE  blocks[i] \in Block /\ SameBlock(blocks[i], message.blocks[i])
        OBVIOUS
      <4>1. PICK v \in BOOLEAN : v = wanted(message.role, message.blocks, i)
        OBVIOUS
      <4>2. blocks[i] = [message.blocks[i] EXCEPT !.mark = v]
        BY <3>4, <4>1
      <4>3. message.blocks[i] \in Block
        BY <3>3
      <4>. QED
        BY <4>2, <4>3, MarkedBlock
    <3>6. blocks \in Seq(Block) /\ Len(blocks) = k
      BY <3>4, <3>5, MadeSeq
    <3>7. s[m] = [message EXCEPT !.blocks = blocks]
      BY <2>2, <3>1, <3>2
    <3>8. s[m].role = message.role /\ s[m].blocks = blocks /\ s[m] \in Message
      BY <3>6, <3>7 DEF Message
    <3>. QED
      BY <3>1, <3>3, <3>5, <3>6, <3>8 DEF SameMessage
  <2>4. s \in Seq(Message) /\ Len(s) = n
    BY <2>2, <2>3, MadeSeq
  <2>. QED
    BY <1>0, <2>1, <2>3, <2>4 DEF MarksDiffer
<1>. QED
  BY <1>2, <1>3

\* What holds of a block holds of it whatever its mark is.
LEMMA BlocksAgree ==
    ASSUME NEW a \in Message, NEW b \in Message, SameMessage(a, b)
    PROVE  /\ \A x : IsIn(x, a.blocks) => \E y : IsIn(y, b.blocks) /\ SameBlock(x, y)
           /\ \A y : IsIn(y, b.blocks) => \E x : IsIn(x, a.blocks) /\ SameBlock(x, y)
BY DEF SameMessage, IsIn

LEMMA MarkedPlaced ==
    ASSUME NEW a \in Message, NEW b \in Message, SameMessage(a, b), NEW m, NEW by, Placed(m, b, by)
    PROVE  Placed(m, a, by)
<1>1. /\ \A x : IsIn(x, a.blocks) => \E y : IsIn(y, b.blocks) /\ SameBlock(x, y)
      /\ a.role = b.role /\ Len(a.blocks) = Len(b.blocks)
      /\ \A i \in 1..Len(a.blocks) : SameBlock(a.blocks[i], b.blocks[i])
  BY BlocksAgree DEF SameMessage
<1>2. \A x : Shows(a.blocks, x) => x.at[1] = m
  BY <1>1 DEF Shows, SameBlock, Placed
<1>3. InOrder(a.blocks, BlockOrder)
  <2>. SUFFICES ASSUME NEW i \in 1..Len(a.blocks), NEW j \in 1..Len(a.blocks), i < j
                PROVE  <<a.blocks[i], a.blocks[j]>> \in BlockOrder
    BY DEF InOrder
  <2>1. <<b.blocks[i], b.blocks[j]>> \in BlockOrder
    BY <1>1 DEF Placed, InOrder
  <2>2. PICK p, q, x, y : p = a.blocks[i] /\ q = a.blocks[j] /\ x = b.blocks[i] /\ y = b.blocks[j]
    OBVIOUS
  <2>3. SameBlock(p, x) /\ SameBlock(q, y)
    BY <1>1, <2>2
  <2>4. p \in Block /\ q \in Block
    <3>1. a.blocks \in Seq(Block)
      BY DEF Message
    <3>. QED
      BY <2>2, <3>1
  <2>5. Later(x, y) /\ ~SameCall(x, y)
    BY <2>1, <2>2 DEF BlockOrder
  <2>6. Later(p, q)
    BY <2>3, <2>5 DEF SameBlock, Later
  <2>7. ~SameCall(p, q)
    <3>. SUFFICES ASSUME SameCall(p, q) PROVE FALSE
      OBVIOUS
    <3>1. p.kind = "tool_use" /\ q.kind = "tool_use" /\ p.id = q.id /\ p.id # NoId
      BY DEF SameCall
    <3>2. p.kind # "carrier" /\ q.kind # "carrier"
      BY <3>1
    <3>. QED
      BY <2>3, <2>5, <3>1, <3>2 DEF SameBlock, SameCall
  <2>8. <<p, q>> \in BlockOrder
    BY <2>4, <2>6, <2>7 DEF BlockOrder
  <2>. QED
    BY <2>2, <2>8
<1>4. a.role = "user" => \A x : IsIn(x, a.blocks) => x.kind \in {"text", "tool_result"}
  BY <1>1 DEF SameBlock, Placed
<1>5. a.role = "assistant" => \A x : IsIn(x, a.blocks) => x.kind # "tool_result"
  BY <1>1 DEF SameBlock, Placed
<1>6. \A x : IsIn(x, a.blocks) /\ x.kind = "carrier" => x.model = by.model
  BY <1>1 DEF SameBlock, Placed
<1>. QED
  BY <1>2, <1>3, <1>4, <1>5, <1>6 DEF Placed

LEMMA UnmarkedFaithful ==
    ASSUME NEW messages \in Seq(Message), NEW marked, MarksDiffer(marked, messages),
           NEW items, NEW backend, NEW model, Faithful(items, marked, backend, model)
    PROVE  Faithful(items, messages, backend, model)
<1>1. /\ marked \in Seq(Message) /\ Len(marked) = Len(messages)
      /\ \A m \in 1..Len(messages) : SameMessage(marked[m], messages[m])
  BY DEF MarksDiffer
<1>2. ASSUME NEW m \in 1..Len(messages)
      PROVE  /\ \A x : IsIn(x, marked[m].blocks) =>
                   \E y : IsIn(y, messages[m].blocks) /\ SameBlock(x, y)
             /\ \A y : IsIn(y, messages[m].blocks) =>
                   \E x : IsIn(x, marked[m].blocks) /\ SameBlock(x, y)
  <2>1. marked[m] \in Message /\ messages[m] \in Message
    BY <1>1
  <2>. QED
    BY <1>1, <2>1, BlocksAgree
<1>3. \A x : IsIn(x, items) => \E m \in 1..Len(messages) : \E b :
                 Shows(messages[m].blocks, b) /\ Stands(x, b) /\ x.at[1] = m
  <2>. SUFFICES ASSUME NEW x, IsIn(x, items)
                PROVE  \E m \in 1..Len(messages) : \E b :
                          Shows(messages[m].blocks, b) /\ Stands(x, b) /\ x.at[1] = m
    OBVIOUS
  <2>0. PICK m \in 1..Len(messages) :
                \E c : Shows(marked[m].blocks, c) /\ Stands(x, c) /\ x.at[1] = m
    BY <1>1 DEF Faithful
  <2>1. PICK c : Shows(marked[m].blocks, c) /\ Stands(x, c) /\ x.at[1] = m
    BY <2>0
  <2>2. PICK b : IsIn(b, messages[m].blocks) /\ SameBlock(c, b)
    BY <1>2, <2>1 DEF Shows
  <2>3. Shows(messages[m].blocks, b) /\ Stands(x, b)
    BY <2>1, <2>2 DEF Shows, SameBlock, Stands
  <2>. QED
    BY <2>1, <2>3
<1>4. \A m \in 1..Len(messages) : \A b :
          Shows(messages[m].blocks, b) => \E x : IsIn(x, items) /\ Stands(x, b)
  <2>. SUFFICES ASSUME NEW m \in 1..Len(messages), NEW b, Shows(messages[m].blocks, b)
                PROVE  \E x : IsIn(x, items) /\ Stands(x, b)
    OBVIOUS
  <2>1. PICK c : IsIn(c, marked[m].blocks) /\ SameBlock(c, b)
    BY <1>2 DEF Shows
  <2>2. Shows(marked[m].blocks, c)
    BY <2>1 DEF Shows, SameBlock
  <2>3. PICK x : IsIn(x, items) /\ Stands(x, c)
    BY <1>1, <2>2 DEF Faithful
  <2>. QED
    BY <2>1, <2>2, <2>3 DEF Shows, SameBlock, Stands
<1>5. \A x \in UpItem : IsIn(x, items) => x.at[1] \in 1..Len(messages)
  BY <1>3
<1>6. InOrder(items, Precedes(messages, backend))
  <2>. SUFFICES ASSUME NEW i \in 1..Len(items), NEW j \in 1..Len(items), i < j
                PROVE  <<items[i], items[j]>> \in Precedes(messages, backend)
    BY DEF InOrder
  <2>1. <<items[i], items[j]>> \in Precedes(marked, backend)
    BY DEF Faithful, InOrder
  <2>2. items \in Seq(UpItem)
    BY DEF Faithful
  <2>3. PICK x, y : x = items[i] /\ y = items[j]
    OBVIOUS
  <2>4. x \in UpItem /\ x.at[1] \in 1..Len(messages)
    <3>1. IsIn(x, items)
      BY <2>3 DEF IsIn
    <3>2. x \in UpItem
      BY <2>2, <2>3
    <3>. QED
      BY <1>5, <3>1, <3>2
  <2>5. marked[x.at[1]].role = messages[x.at[1]].role
    BY <1>1, <2>4 DEF SameMessage
  <2>6. <<x, y>> \in Precedes(messages, backend)
    BY <2>1, <2>3, <2>5 DEF Precedes
  <2>. QED
    BY <2>3, <2>6
<1>7. \A x : IsIn(x, items) /\ x.from = "output" => \E b :
          /\ IsIn(b, messages[x.at[1]].blocks) /\ b.kind = "carrier" /\ b.model = model
  <2>. SUFFICES ASSUME NEW x, IsIn(x, items), x.from = "output"
                PROVE  \E b : /\ IsIn(b, messages[x.at[1]].blocks)
                              /\ b.kind = "carrier" /\ b.model = model
    OBVIOUS
  <2>1. PICK c : IsIn(c, marked[x.at[1]].blocks) /\ c.kind = "carrier" /\ c.model = model
    BY DEF Faithful
  <2>2. x.at[1] \in 1..Len(messages)
    BY <1>3
  <2>3. PICK b : IsIn(b, messages[x.at[1]].blocks) /\ SameBlock(c, b)
    BY <1>2, <2>1, <2>2
  <2>. QED
    BY <2>1, <2>3 DEF SameBlock
<1>. QED
  BY <1>3, <1>4, <1>6, <1>7 DEF Faithful

\* The calls and results of a conversation have ids.
CallsHaveIds(messages) ==
    \A m \in 1..Len(messages) : \A b :
        IsIn(b, messages[m].blocks) /\ b.kind \in {"tool_use", "tool_result"} => b.id # NoId

\* A request that is accepted tells the conversation, whatever it marks.
LEMMA RequestIsFaithful ==
    ASSUME NEW messages \in Seq(Message), NEW backend \in {"responses", "chat_completions"},
           NEW model, \A m \in 1..Len(messages) : \E by : Placed(m, messages[m], by),
           Convert(WithMarks(messages), backend, model) # Null
    PROVE  /\ Faithful(Convert(WithMarks(messages), backend, model), messages, backend, model)
           /\ CallsHaveIds(messages)
<1>1. PICK marked : marked = WithMarks(messages)
  OBVIOUS
<1>2. MarksDiffer(marked, messages)
  BY <1>1, MarksOnly
<1>3. /\ marked \in Seq(Message) /\ Len(marked) = Len(messages)
      /\ \A m \in 1..Len(messages) : SameMessage(marked[m], messages[m])
  BY <1>2 DEF MarksDiffer
<1>4. \A m \in 1..Len(marked) : marked[m] \in Message /\ messages[m] \in Message
  BY <1>3
<1>5. \A m \in 1..Len(marked) : \E by : Placed(m, marked[m], by)
  <2>. SUFFICES ASSUME NEW m \in 1..Len(marked) PROVE \E by : Placed(m, marked[m], by)
    OBVIOUS
  <2>1. PICK by : Placed(m, messages[m], by)
    BY <1>3
  <2>. QED
    BY <1>3, <1>4, <2>1, MarkedPlaced
<1>6. /\ Faithful(Convert(marked, backend, model), marked, backend, model)
      /\ ValidRequest(marked, backend)
  BY <1>1, <1>3, <1>5, ConvertIsFaithful
<1>7. CallsHaveIds(messages)
  <2>. SUFFICES ASSUME NEW m \in 1..Len(messages), NEW b, IsIn(b, messages[m].blocks),
                       b.kind \in {"tool_use", "tool_result"}
                PROVE  b.id # NoId
    BY DEF CallsHaveIds
  <2>1. PICK x : IsIn(x, marked[m].blocks) /\ SameBlock(x, b)
    BY <1>3, <1>4, BlocksAgree
  <2>2. ValidBlock(marked[m].role, x, backend)
    BY <1>3, <1>6, <2>1, ValidBlocks
  <2>3. x.kind = b.kind /\ x.kind # "carrier" /\ x.id = b.id
    BY <2>1 DEF SameBlock
  <2>. QED
    BY <2>2, <2>3 DEF ValidBlock
<1>. QED
  BY <1>1, <1>2, <1>6, <1>7, UnmarkedFaithful

-----------------------------------------------------------------------------
(* What comes into the conversation.                                       *)

\* An item of any output.
AnyOutcome ==
    [kind : OutputKind.responses \cup OutputKind.chat_completions \cup OutputKind.anthropic,
     id : Id, at : Coordinate, about : {Null}, mark : BOOLEAN]

IsCall(item) == item.kind \in {"function_call", "tool_use"}

\* A new output: its items are in their places, no two calls have the same id.
NewOutput(n, out) ==
    /\ out \in Seq(AnyOutcome)
    /\ \A i \in 1..Len(out) : out[i].at = <<n, i>>
    /\ \A i, j \in 1..Len(out) : i < j /\ IsCall(out[i]) /\ IsCall(out[j]) =>
          out[i].id # out[j].id \/ out[i].id = NoId

\* What the blocks of a new answer are like.
GoodAnswer(n, blocks, model) ==
    /\ blocks \in Seq(Block) /\ InOrder(blocks, BlockOrder)
    /\ \A b : Shows(blocks, b) => b.at[1] = n
    /\ \A b : IsIn(b, blocks) => b.kind # "tool_result"
    /\ \A b : IsIn(b, blocks) /\ b.kind = "carrier" => b.model = model

\* The block an item is shown as.
LEMMA ShownItem ==
    ASSUME NEW item \in AnyOutcome
    PROVE  LET x == Said(BlockKind(item), item.id, item.at)
           IN  /\ x \in SaidBlock /\ x.id = item.id /\ x.at = item.at
               /\ x.kind \notin {"carrier", "tool_result"}
               /\ x.kind = "tool_use" => IsCall(item)
<1>1. /\ item.id \in Id /\ item.at \in Coordinate
      /\ item.kind \in {"reasoning", "output_text", "refusal", "function_call", "thinking", "text",
                        "tool_use"}
  BY DEF AnyOutcome, OutputKind
<1>2. BlockKind(item) \in {"text", "tool_use", "reasoning", "thinking"}
  BY <1>1 DEF BlockKind
<1>3. BlockKind(item) = "tool_use" => IsCall(item)
  BY <1>1 DEF BlockKind, IsCall
<1>. QED
  BY <1>1, <1>2, <1>3 DEF Said, SaidBlock, Shown

\* How a new output is shown.
LEMMA NewShown ==
    ASSUME NEW n \in Nat, NEW out, NewOutput(n, out), NEW model
    PROVE  /\ GoodAnswer(n, VisibleBlocks(out), model)
           /\ \A b : IsIn(b, VisibleBlocks(out)) => b.kind # "carrier"
<1>1. PICK k \in Nat : k = Len(out) /\ DOMAIN out = 1..k /\ \A i \in 1..k : out[i] \in AnyOutcome
  BY DEF NewOutput
<1>2. PICK s : s = VisibleBlocks(out)
  OBVIOUS
<1>3. /\ s = [i \in 1..k |-> s[i]]
      /\ \A i \in 1..k : s[i] = Said(BlockKind(out[i]), out[i].id, out[i].at)
  BY <1>1, <1>2 DEF VisibleBlocks
<1>4. \A i \in 1..k : /\ s[i] \in SaidBlock /\ s[i].id = out[i].id /\ s[i].at = out[i].at
                      /\ s[i].kind \notin {"carrier", "tool_result"}
                      /\ s[i].kind = "tool_use" => IsCall(out[i])
  BY <1>1, <1>3, ShownItem
<1>5. \A i \in 1..k : s[i] \in Block /\ s[i].at = <<n, i>>
  BY <1>1, <1>4 DEF Block, NewOutput
<1>6. s \in Seq(Block) /\ Len(s) = k
  BY <1>3, <1>5, MadeSeq
<1>7. InOrder(s, BlockOrder)
  <2>. SUFFICES ASSUME NEW i \in 1..k, NEW j \in 1..k, i < j PROVE <<s[i], s[j]>> \in BlockOrder
    BY <1>6 DEF InOrder
  <2>1. PICK x, y : x = s[i] /\ y = s[j]
    OBVIOUS
  <2>2. x \in Block /\ y \in Block /\ x.at = <<n, i>> /\ y.at = <<n, j>>
    BY <1>5, <2>1
  <2>3. Later(x, y)
    BY <2>2 DEF Later
  <2>4. ~SameCall(x, y)
    <3>. SUFFICES ASSUME SameCall(x, y) PROVE FALSE
      OBVIOUS
    <3>1. IsCall(out[i]) /\ IsCall(out[j]) /\ out[i].id = out[j].id /\ out[i].id # NoId
      BY <1>4, <2>1 DEF SameCall
    <3>. QED
      BY <1>1, <3>1 DEF NewOutput
  <2>5. <<x, y>> \in BlockOrder
    BY <2>2, <2>3, <2>4 DEF BlockOrder
  <2>. QED
    BY <2>1, <2>5
<1>8. \A b : IsIn(b, s) => b.at[1] = n /\ b.kind # "carrier" /\ b.kind # "tool_result"
  BY <1>4, <1>5, <1>6 DEF IsIn
<1>. QED
  BY <1>2, <1>6, <1>7, <1>8 DEF GoodAnswer, Shows

\* A carrier may stand anywhere.
LEMMA CarrierOrder ==
    ASSUME NEW a \in Seq(Block), NEW b \in Seq(Block),
           \/ \A x : IsIn(x, a) => x.kind = "carrier"
           \/ \A x : IsIn(x, b) => x.kind = "carrier"
    PROVE  OneThenOther(a, b, BlockOrder)
<1>. SUFFICES ASSUME NEW i \in 1..Len(a), NEW j \in 1..Len(b) PROVE <<a[i], b[j]>> \in BlockOrder
  BY DEF OneThenOther
<1>1. IsIn(a[i], a) /\ IsIn(b[j], b)
  BY DEF IsIn
<1>2. PICK x, y : x = a[i] /\ y = b[j]
  OBVIOUS
<1>3. x \in Block /\ y \in Block /\ (x.kind = "carrier" \/ y.kind = "carrier")
  BY <1>1, <1>2
<1>4. <<x, y>> \in BlockOrder
  BY <1>3 DEF BlockOrder, Later, SameCall
<1>. QED
  BY <1>2, <1>4

\* An answer and the carrier of its original, on whichever side of it.
LEMMA CarrierGood ==
    ASSUME NEW n, NEW model, NEW shown, GoodAnswer(n, shown, model),
           NEW carrier \in CarrierBlock, carrier.model = model, NEW s,
           \/ Splits(s, shown, <<carrier>>)
           \/ Splits(s, <<carrier>>, shown)
    PROVE  GoodAnswer(n, s, model)
<1>1. /\ shown \in Seq(Block) /\ InOrder(shown, BlockOrder)
      /\ \A b : Shows(shown, b) => b.at[1] = n
      /\ \A b : IsIn(b, shown) => b.kind # "tool_result"
      /\ \A b : IsIn(b, shown) /\ b.kind = "carrier" => b.model = model
  BY DEF GoodAnswer
<1>2. PICK c \in Seq(Block) : c = <<carrier>>
  <2>1. carrier \in Block
    BY DEF Block
  <2>2. <<carrier>> \in Seq(Block)
    BY <2>1
  <2>. QED
    BY <2>2
<1>3. Len(c) = 1 /\ c[1] = carrier
  BY <1>2
<1>4. \A x : IsIn(x, c) => x = carrier
  BY <1>3 DEF IsIn
<1>5. carrier.kind = "carrier"
  BY DEF CarrierBlock
<1>6. InOrder(c, BlockOrder)
  BY <1>3 DEF InOrder
<1>7. OneThenOther(shown, c, BlockOrder) /\ OneThenOther(c, shown, BlockOrder)
  BY <1>1, <1>4, <1>5, CarrierOrder
<1>8. /\ s \in Seq(Block) /\ InOrder(s, BlockOrder)
      /\ \A x : IsIn(x, s) <=> IsIn(x, shown) \/ IsIn(x, c)
  <2>1. CASE Splits(s, shown, <<carrier>>)
    <3>1. Splits(s, shown, c)
      BY <1>2, <2>1
    <3>. QED
      BY <1>1, <1>6, <1>7, <3>1, ElementsOfSplit, InSplit, OrderOfSplit
  <2>2. CASE Splits(s, <<carrier>>, shown)
    <3>1. Splits(s, c, shown)
      BY <1>2, <2>2
    <3>. QED
      BY <1>1, <1>6, <1>7, <3>1, ElementsOfSplit, InSplit, OrderOfSplit
  <2>. QED
    BY <2>1, <2>2
<1>. QED
  BY <1>1, <1>4, <1>5, <1>8 DEF GoodAnswer, Shows

\* The ids made up for calls that came without one are all different.
LEMMA MadeUpIds ==
    ASSUME NEW k \in Nat, k <= Len(FallbackId), NEW kinds,
           NEW i \in 1..k, NEW j \in 1..k, i < j, kinds[i] = "function_call",
           kinds[j] = "function_call"
    PROVE  LET calls(x) == {y \in 1..x : kinds[y] = "function_call"}
           IN  /\ Cardinality(calls(i)) \in DOMAIN FallbackId
               /\ Cardinality(calls(j)) \in DOMAIN FallbackId
               /\ FallbackId[Cardinality(calls(i))] # FallbackId[Cardinality(calls(j))]
<1>. DEFINE calls(x) == {y \in 1..x : kinds[y] = "function_call"}
<1>1. ASSUME NEW x \in 1..k, kinds[x] = "function_call"
      PROVE  IsFiniteSet(calls(x)) /\ Cardinality(calls(x)) \in 1..k
  <2>1. IsFiniteSet(1..k) /\ Cardinality(1..k) = k
    BY FS_Interval
  <2>2. calls(x) \in SUBSET (1..k) /\ calls(x) # {}
    BY <1>1
  <2>. HIDE DEF calls
  <2>3. IsFiniteSet(calls(x)) /\ Cardinality(calls(x)) <= k
    BY <2>1, <2>2, FS_Subset
  <2>4. Cardinality(calls(x)) \in Nat /\ Cardinality(calls(x)) # 0
    BY <2>2, <2>3, FS_CardinalityType, FS_EmptySet
  <2>. QED
    BY <2>3, <2>4
<1>2. calls(i) \in SUBSET calls(j) /\ calls(i) # calls(j)
  <2>1. j \in calls(j) /\ j \notin calls(i)
    OBVIOUS
  <2>. QED
    BY <2>1
<1>3. PICK a \in 1..k : a = Cardinality(calls(i))
  <2>. HIDE DEF calls
  <2>. QED
    BY <1>1
<1>4. PICK b \in 1..k : b = Cardinality(calls(j))
  <2>. HIDE DEF calls
  <2>. QED
    BY <1>1
<1>5. a # b
  <2>. HIDE DEF calls
  <2>1. IsFiniteSet(calls(j))
    BY <1>1
  <2>. QED
    BY <1>2, <1>3, <1>4, <2>1, FS_Subset
<1>6. \A x, y \in DOMAIN FallbackId : FallbackId[x] = FallbackId[y] => x = y
  BY ConversionAssumption
<1>7. DOMAIN FallbackId = 1..Len(FallbackId) /\ Len(FallbackId) \in Nat
  BY ConversionAssumption
<1>8. a \in DOMAIN FallbackId /\ b \in DOMAIN FallbackId
  BY <1>7
<1>. HIDE DEF calls
<1>9. FallbackId[a] # FallbackId[b]
  BY <1>5, <1>6, <1>8
<1>10. /\ Cardinality(calls(i)) \in DOMAIN FallbackId
       /\ Cardinality(calls(j)) \in DOMAIN FallbackId
       /\ FallbackId[Cardinality(calls(i))] # FallbackId[Cardinality(calls(j))]
  BY <1>3, <1>4, <1>8, <1>9
<1>. QED
  BY <1>10 DEF calls

\* What the upstream says: Answer's `output`.
Uttered(n, kinds, named) ==
    LET id(i) == IF kinds[i] \in {"function_call", "tool_use"} /\ named THEN <<n, i>> ELSE NoId
    IN  [i \in DOMAIN kinds |-> Said(kinds[i], id(i), <<n, i>>)]

\* What it says is new, and so it is with the ids that are made up.
LEMMA UtteredNew ==
    ASSUME NEW n \in Nat, NEW api \in DOMAIN OutputKind, NEW kinds \in Seq(OutputKind[api]),
           NEW named \in BOOLEAN
    PROVE  /\ NewOutput(n, Uttered(n, kinds, named))
           /\ api = "responses" => Uttered(n, kinds, named) \in Seq(Outcome)
<1>1. PICK k \in Nat : k = Len(kinds) /\ DOMAIN kinds = 1..k /\ \A i \in 1..k : kinds[i] \in OutputKind[api]
  OBVIOUS
<1>2. PICK out : out = Uttered(n, kinds, named)
  OBVIOUS
<1>3. /\ out = [i \in 1..k |-> out[i]]
      /\ \A i \in 1..k : \E id : /\ id = IF kinds[i] \in {"function_call", "tool_use"} /\ named
                                          THEN <<n, i>> ELSE NoId
                                 /\ out[i] = Said(kinds[i], id, <<n, i>>)
  BY <1>1, <1>2 DEF Uttered
<1>4. \A i \in 1..k :
         /\ out[i].kind = kinds[i] /\ out[i].at = <<n, i>> /\ out[i].about = Null
         /\ out[i].mark = FALSE /\ out[i].id \in {NoId, <<n, i>>}
         /\ out[i] = [kind |-> out[i].kind, id |-> out[i].id, at |-> out[i].at,
                      about |-> out[i].about, mark |-> out[i].mark]
         /\ IsCall(out[i]) /\ ~named => out[i].id = NoId
         /\ IsCall(out[i]) /\ named => out[i].id = <<n, i>>
  BY <1>3 DEF Said, IsCall
<1>5. ASSUME NEW i \in 1..k
      PROVE  out[i] \in AnyOutcome /\ (api = "responses" => out[i] \in Outcome)
  <2>1. \A a \in DOMAIN OutputKind : OutputKind[a] \subseteq
            OutputKind.responses \cup OutputKind.chat_completions \cup OutputKind.anthropic
    BY DEF OutputKind
  <2>2. <<n, i>> \in Coordinate
    BY DEF Coordinate
  <2>3. out[i].id \in Id /\ out[i].at \in Coordinate
    BY <1>4, <2>2 DEF Id
  <2>4. out[i].kind \in OutputKind[api]
    BY <1>1, <1>4
  <2>. QED
    <3>1. PICK x : x = out[i]
      OBVIOUS
    <3>2. /\ x = [kind |-> x.kind, id |-> x.id, at |-> x.at, about |-> x.about, mark |-> x.mark]
          /\ x.id \in Id /\ x.at \in Coordinate /\ x.about = Null /\ x.mark = FALSE
          /\ x.kind \in OutputKind[api]
      BY <1>4, <2>3, <2>4, <3>1
    <3>3. x.mark \in BOOLEAN /\ x.about \in {Null}
      BY <3>2
    <3>4. PICK K : K = OutputKind.responses \cup OutputKind.chat_completions \cup OutputKind.anthropic
      OBVIOUS
    <3>5. x \in [kind : K, id : Id, at : Coordinate, about : {Null}, mark : BOOLEAN]
      BY <2>1, <3>2, <3>3, <3>4
    <3>6. api = "responses" =>
            x \in [kind : OutputKind.responses, id : Id, at : Coordinate, about : {Null}, mark : BOOLEAN]
      BY <3>2, <3>3
    <3>. QED
      BY <3>1, <3>4, <3>5, <3>6 DEF AnyOutcome, Outcome
<1>6. out \in Seq(AnyOutcome) /\ Len(out) = k /\ (api = "responses" => out \in Seq(Outcome))
  BY <1>3, <1>5, MadeSeq
<1>. QED
  BY <1>2, <1>4, <1>6 DEF NewOutput

\* A Chat output with its ids, as ChatResult shows it.
WithIds(out, streamed) == [i \in DOMAIN out |-> [out[i] EXCEPT !.id = CallId(out, i, streamed)]]

LEMMA IdsNew ==
    ASSUME NEW n \in Nat, NEW kinds \in Seq(OutputKind["chat_completions"]),
           Len(kinds) <= Len(FallbackId), NEW named \in BOOLEAN, NEW streamed \in BOOLEAN
    PROVE  NewOutput(n, WithIds(Uttered(n, kinds, named), streamed))
<1>0. "chat_completions" \in DOMAIN OutputKind
  BY DEF OutputKind
<1>1. PICK k \in Nat : /\ k = Len(kinds) /\ DOMAIN kinds = 1..k
                       /\ \A i \in 1..k : kinds[i] \in {"output_text", "refusal", "function_call"}
  BY DEF OutputKind
<1>2. PICK out : out = Uttered(n, kinds, named)
  OBVIOUS
<1>3. NewOutput(n, out)
  BY <1>0, <1>2, UtteredNew
<1>4. /\ DOMAIN out = 1..k
      /\ \A i \in 1..k : /\ out[i].kind = kinds[i]
                         /\ ~named => out[i].id = NoId
                         /\ IsCall(out[i]) /\ named => out[i].id = <<n, i>>
  BY <1>1, <1>2 DEF Uttered, Said, IsCall
<1>5. Len(out) = k /\ \A i \in 1..k : out[i] \in AnyOutcome /\ out[i].at = <<n, i>>
  BY <1>3, <1>4 DEF NewOutput
<1>6. PICK s : s = WithIds(out, streamed)
  OBVIOUS
<1>7. /\ s = [i \in 1..k |-> s[i]]
      /\ \A i \in 1..k : s[i] = [out[i] EXCEPT !.id = CallId(out, i, streamed)]
  BY <1>4, <1>6 DEF WithIds
<1>8. \A i \in 1..k : IsCall(out[i]) <=> kinds[i] = "function_call"
  BY <1>1, <1>4 DEF IsCall
<1>. DEFINE calls(x) == {y \in 1..x : kinds[y] = "function_call"}
<1>9. \A i \in 1..k :
         CallId(out, i, streamed) = IF kinds[i] = "function_call" /\ out[i].id = NoId /\ streamed
                                    THEN FallbackId[Cardinality(calls(i))] ELSE out[i].id
  <2>1. \A i \in 1..k : {y \in 1..i : out[y].kind = "function_call"} = calls(i)
    BY <1>4
  <2>. HIDE DEF calls
  <2>. QED
    BY <1>4, <2>1 DEF CallId
<1>10. ASSUME NEW i \in 1..k, kinds[i] = "function_call"
       PROVE  Cardinality(calls(i)) \in DOMAIN FallbackId
  <2>1. IsFiniteSet(1..k) /\ Cardinality(1..k) = k
    BY FS_Interval
  <2>2. calls(i) \in SUBSET (1..k) /\ calls(i) # {}
    BY <1>10
  <2>. HIDE DEF calls
  <2>3. IsFiniteSet(calls(i)) /\ Cardinality(calls(i)) <= k
    BY <2>1, <2>2, FS_Subset
  <2>4. Cardinality(calls(i)) \in Nat /\ Cardinality(calls(i)) # 0
    BY <2>2, <2>3, FS_CardinalityType, FS_EmptySet
  <2>5. DOMAIN FallbackId = 1..Len(FallbackId) /\ Len(FallbackId) \in Nat
    BY ConversionAssumption
  <2>6. k <= Len(FallbackId)
    BY <1>1
  <2>. QED
    BY <2>3, <2>4, <2>5, <2>6
<1>11. ASSUME NEW i \in 1..k PROVE CallId(out, i, streamed) \in Id
  <2>1. out[i].id \in Id
    BY <1>5 DEF AnyOutcome
  <2>2. \A x \in DOMAIN FallbackId : FallbackId[x] \in Id
    BY DEF Id, Range
  <2>. HIDE DEF calls
  <2>. QED
    BY <1>9, <1>10, <2>1, <2>2
<1>12. \A i \in 1..k : /\ s[i] \in AnyOutcome /\ s[i].at = <<n, i>> /\ s[i].kind = out[i].kind
                       /\ s[i].id = CallId(out, i, streamed)
  <2>. SUFFICES ASSUME NEW i \in 1..k
                PROVE  /\ s[i] \in AnyOutcome /\ s[i].at = <<n, i>> /\ s[i].kind = out[i].kind
                       /\ s[i].id = CallId(out, i, streamed)
    OBVIOUS
  <2>1. PICK id \in Id : id = CallId(out, i, streamed)
    BY <1>11
  <2>2. PICK item \in AnyOutcome : item = out[i]
    BY <1>5
  <2>3. s[i] = [item EXCEPT !.id = id]
    BY <1>7, <2>1, <2>2
  <2>4. s[i] \in AnyOutcome /\ s[i].at = item.at /\ s[i].kind = item.kind /\ s[i].id = id
    BY <2>3 DEF AnyOutcome
  <2>. QED
    BY <1>5, <2>1, <2>2, <2>4
<1>13. s \in Seq(AnyOutcome) /\ Len(s) = k
  BY <1>7, <1>12, MadeSeq
<1>14. ASSUME NEW i \in 1..k, NEW j \in 1..k, i < j, IsCall(s[i]), IsCall(s[j])
       PROVE  s[i].id # s[j].id \/ s[i].id = NoId
  <2>1. kinds[i] = "function_call" /\ kinds[j] = "function_call" /\ IsCall(out[i]) /\ IsCall(out[j])
    BY <1>8, <1>12, <1>14 DEF IsCall
  <2>2. CASE named
    <3>1. out[i].id = <<n, i>> /\ out[j].id = <<n, j>>
      BY <1>4, <2>1, <2>2
    <3>2. <<n, i>> \in Nat \X Nat /\ <<n, j>> \in Nat \X Nat
      OBVIOUS
    <3>3. out[i].id # NoId /\ out[j].id # NoId
      BY <3>1, <3>2, ConversionAssumption
    <3>4. s[i].id = <<n, i>> /\ s[j].id = <<n, j>>
      <4>. HIDE DEF calls
      <4>. QED
        BY <1>9, <1>12, <3>1, <3>3
    <3>. QED
      BY <1>14, <3>4
  <2>3. CASE ~named /\ streamed
    <3>1. out[i].id = NoId /\ out[j].id = NoId
      BY <1>4, <2>3
    <3>2. s[i].id = FallbackId[Cardinality(calls(i))] /\ s[j].id = FallbackId[Cardinality(calls(j))]
      <4>. HIDE DEF calls
      <4>. QED
        BY <1>9, <1>12, <2>1, <2>3, <3>1
    <3>3. k <= Len(FallbackId)
      BY <1>1
    <3>4. FallbackId[Cardinality(calls(i))] # FallbackId[Cardinality(calls(j))]
      <4>1. kinds[i] = "function_call" /\ kinds[j] = "function_call" /\ i < j
        BY <1>14, <2>1
      <4>. QED
        BY <3>3, <4>1, MadeUpIds, ZenonT(60)
    <3>. QED
      BY <3>2, <3>4
  <2>4. CASE ~named /\ ~streamed
    <3>1. out[i].id = NoId
      BY <1>4, <2>4
    <3>2. s[i].id = NoId
      <4>. HIDE DEF calls
      <4>. QED
        BY <1>9, <1>12, <2>4, <3>1
    <3>. QED
      BY <3>2
  <2>. QED
    BY <2>2, <2>3, <2>4
<1>. QED
  BY <1>2, <1>6, <1>12, <1>13, <1>14 DEF NewOutput

\* Whatever the backend, the client is shown a good answer.
LEMMA ResultGood ==
    ASSUME NEW n \in Nat, NEW api \in DOMAIN OutputKind, NEW kinds \in Outputs[api],
           NEW named \in BOOLEAN, NEW streamed \in BOOLEAN, NEW model \in Name
    PROVE  GoodAnswer(n, Result(api, model, Uttered(n, kinds, named), streamed), model)
<1>1. kinds \in Seq(OutputKind[api])
  BY SessionAssumption
<1>2. PICK out : out = Uttered(n, kinds, named)
  OBVIOUS
<1>3. NewOutput(n, out) /\ (api = "responses" => out \in Seq(Outcome))
  BY <1>1, <1>2, UtteredNew
<1>4. PICK shown : shown = VisibleBlocks(out)
  OBVIOUS
<1>5. GoodAnswer(n, shown, model)
  BY <1>3, <1>4, NewShown
<1>6. CASE api = "responses"
  <2>1. PICK carrier : carrier = Carrier(model, out)
    OBVIOUS
  <2>2. carrier \in CarrierBlock /\ carrier.model = model
    BY <1>3, <1>6, <2>1 DEF Carrier, CarrierBlock
  <2>3. shown \in Seq(Block) /\ carrier \in Block
    BY <1>5, <2>2 DEF GoodAnswer, Block
  <2>4. PICK s : s = Result(api, model, out, streamed)
    OBVIOUS
  <2>5. s = IF streamed THEN Append(shown, carrier) ELSE <<carrier>> \o shown
    BY <1>4, <1>6, <2>1, <2>4 DEF Result, ResponsesResult
  <2>6. Append(shown, carrier) = shown \o <<carrier>>
    BY <2>3
  <2>7. Splits(s, shown, <<carrier>>) \/ Splits(s, <<carrier>>, shown)
    BY <2>5, <2>6 DEF Splits
  <2>8. GoodAnswer(n, s, model)
    BY <1>5, <2>2, <2>7, CarrierGood
  <2>. QED
    BY <1>2, <2>4, <2>8
<1>7. CASE api = "chat_completions"
  <2>1. Len(kinds) <= Len(FallbackId)
    BY <1>7, SessionAssumption
  <2>2. NewOutput(n, WithIds(out, streamed))
    BY <1>1, <1>2, <1>7, <2>1, IdsNew
  <2>3. Result(api, model, out, streamed) = VisibleBlocks(WithIds(out, streamed))
    BY <1>7 DEF Result, ChatResult, WithIds
  <2>4. GoodAnswer(n, VisibleBlocks(WithIds(out, streamed)), model)
    BY <2>2, NewShown
  <2>. QED
    BY <1>2, <2>3, <2>4
<1>8. CASE api = "anthropic"
  <2>1. Result(api, model, out, streamed) = shown
    BY <1>4, <1>8 DEF Result
  <2>. QED
    BY <1>2, <1>5, <2>1
<1>9. api \in {"responses", "chat_completions", "anthropic"}
  BY DEF OutputKind
<1>. QED
  BY <1>6, <1>7, <1>8, <1>9

\* What the client keeps of a good answer is one.
LEMMA KeptGood ==
    ASSUME client \in Client, NEW n, NEW blocks, NEW model, GoodAnswer(n, blocks, model)
    PROVE  GoodAnswer(n, Kept(blocks), model)
<1>1. \/ Kept(blocks) = blocks
      \/ \E kinds : Kept(blocks) = Without(blocks, kinds)
  BY DEF Kept, Client
<1>2. ASSUME NEW kinds PROVE GoodAnswer(n, Without(blocks, kinds), model)
  <2>1. blocks \in Seq(Block) /\ InOrder(blocks, BlockOrder)
    BY DEF GoodAnswer
  <2>2. /\ Without(blocks, kinds) \in Seq(Block)
        /\ InOrder(Without(blocks, kinds), BlockOrder)
        /\ \A b : IsIn(b, Without(blocks, kinds)) => IsIn(b, blocks)
    BY <2>1, PickedBlocks
  <2>. QED
    BY <2>2 DEF GoodAnswer, Shows
<1>. QED
  BY <1>1, <1>2

\* An element of a prompt: a text, or the result of a call of the message before.
Reply(x, n, i, before) ==
    /\ x \in SaidBlock /\ x.at = <<n, i>> /\ x.kind \in {"text", "tool_result"}
    /\ x.kind = "tool_result" =>
          \E c : IsIn(c, before) /\ c.kind = "tool_use" /\ c.id = x.id /\ c.at = x.about

\* What the results of a message are about.
ResultsOf(blocks, before) ==
    \A b : IsIn(b, blocks) /\ b.kind = "tool_result" =>
        \E c : IsIn(c, before) /\ c.kind = "tool_use" /\ c.id = b.id /\ c.at = b.about

\* What a prompt of the client is like.
GoodPrompt(n, prompt, before) ==
    /\ prompt \in Seq(Block) /\ InOrder(prompt, BlockOrder)
    /\ \A b : Shows(prompt, b) => b.at[1] = n
    /\ \A b : IsIn(b, prompt) => b.kind \in {"text", "tool_result"}
    /\ ResultsOf(prompt, before)

LEMMA RepliesGood ==
    ASSUME NEW n \in Nat, NEW before, NEW prompt, NEW k \in Nat,
           prompt \in Seq(SaidBlock), Len(prompt) = k, \A i \in 1..k : Reply(prompt[i], n, i, before)
    PROVE  GoodPrompt(n, prompt, before)
<1>1. prompt \in Seq(Block)
  BY DEF Block
<1>2. InOrder(prompt, BlockOrder)
  <2>. SUFFICES ASSUME NEW i \in 1..k, NEW j \in 1..k, i < j PROVE <<prompt[i], prompt[j]>> \in BlockOrder
    BY DEF InOrder
  <2>1. PICK x, y : x = prompt[i] /\ y = prompt[j]
    OBVIOUS
  <2>2. /\ x \in Block /\ y \in Block /\ x.at = <<n, i>> /\ y.at = <<n, j>>
        /\ x.kind # "tool_use"
    BY <2>1 DEF Reply, Block
  <2>3. Later(x, y) /\ ~SameCall(x, y)
    BY <2>2 DEF Later, SameCall
  <2>4. <<x, y>> \in BlockOrder
    BY <2>2, <2>3 DEF BlockOrder
  <2>. QED
    BY <2>1, <2>4
<1>3. \A b : IsIn(b, prompt) => \E i \in 1..k : Reply(b, n, i, before)
  BY DEF IsIn
<1>4. \A b : IsIn(b, prompt) => b.at[1] = n /\ b.kind \in {"text", "tool_result"}
  BY <1>3 DEF Reply
<1>5. ResultsOf(prompt, before)
  BY <1>3 DEF Reply, ResultsOf
<1>. QED
  BY <1>1, <1>2, <1>4, <1>5 DEF GoodPrompt, Shows

TextAt(n, i) == Said("text", NoId, <<n, i>>)
ResultAt(n, i, call) == [Said("tool_result", call.id, <<n, i>>) EXCEPT !.about = call.at]

LEMMA TextReply ==
    ASSUME NEW n \in Nat, NEW i \in Nat, NEW before
    PROVE  Reply(TextAt(n, i), n, i, before)
BY DEF Reply, TextAt, Said, SaidBlock, Shown, Id, Coordinate

LEMMA ResultReply ==
    ASSUME NEW n \in Nat, NEW i \in Nat, NEW before, NEW call, IsIn(call, before),
           call \in Block, call.kind = "tool_use"
    PROVE  Reply(ResultAt(n, i, call), n, i, before)
<1>1. call \in SaidBlock
  BY BlockSorts
<1>2. call.id \in Id /\ call.at \in Coordinate
  BY <1>1 DEF SaidBlock
<1>3. PICK id \in Id, about \in Coordinate : id = call.id /\ about = call.at
  BY <1>2
<1>4. PICK at \in Coordinate : at = <<n, i>>
  BY DEF Coordinate
<1>5. PICK x : x = ResultAt(n, i, call)
  OBVIOUS
<1>6. PICK r : r = Said("tool_result", id, at)
  OBVIOUS
<1>7. r \in SaidBlock /\ r.at = at /\ r.id = id /\ r.kind = "tool_result"
  BY <1>6 DEF Said, SaidBlock, Shown
<1>8. x = [r EXCEPT !.about = about]
  BY <1>3, <1>4, <1>5, <1>6 DEF ResultAt
<1>9. x \in SaidBlock /\ x.at = at /\ x.id = id /\ x.kind = "tool_result" /\ x.about = about
  BY <1>7, <1>8 DEF SaidBlock
<1>. QED
  BY <1>3, <1>4, <1>5, <1>9 DEF Reply

\* The calls of the last message.
Before == IF history = <<>> THEN <<>> ELSE Last(history).blocks

LEMMA PromptGood ==
    ASSUME history \in Seq(Message), NEW prompt \in Prompts
    PROVE  GoodPrompt(Len(history) + 1, prompt, Before)
<1>0. PICK n \in Nat : n = Len(history) + 1
  OBVIOUS
<1>1. Before \in Seq(Block)
  <2>1. history # <<>> => Last(history) \in Message
    BY DEF Last
  <2>. QED
    BY <2>1 DEF Before, Message
<1>2. PICK calls : calls = IF history = <<>> THEN <<>> ELSE Calls(Last(history).blocks)
  OBVIOUS
<1>3. /\ calls \in Seq(Block)
      /\ \A c : IsIn(c, calls) => IsIn(c, Before) /\ c.kind = "tool_use"
  <2>1. CASE history = <<>>
    BY <1>2, <2>1 DEF IsIn
  <2>2. CASE history # <<>>
    <3>1. calls = Only(Before, {"tool_use"})
      BY <1>2, <2>2 DEF Before, Calls
    <3>. QED
      BY <1>1, <3>1, PickedBlocks
  <2>. QED
    BY <2>1, <2>2
<1>4. PICK k \in Nat : k = Len(calls) /\ \A i \in 1..k : IsIn(calls[i], calls) /\ calls[i] \in Block
  BY <1>3 DEF IsIn
<1>5. ASSUME NEW i \in Nat, NEW j \in 1..k PROVE Reply(ResultAt(n, i, calls[j]), n, i, Before)
  <2>1. IsIn(calls[j], Before) /\ calls[j] \in Block /\ calls[j].kind = "tool_use"
    BY <1>3, <1>4
  <2>. QED
    BY <2>1, ResultReply
<1>6. \A i \in Nat : Reply(TextAt(n, i), n, i, Before)
  BY TextReply
<1>7. \A i, x : Reply(x, n, i, Before) => x \in SaidBlock
  BY DEF Reply
<1>8. \/ prompt = <<TextAt(n, 1)>>
      \/ prompt = [i \in 1..k |-> ResultAt(n, i, calls[i])]
      \/ prompt = Append([i \in 1..k |-> ResultAt(n, i, calls[k + 1 - i])], TextAt(n, k + 1))
      \/ prompt = <<TextAt(n, 1)>> \o [i \in 1..k |-> ResultAt(n, i + 1, calls[i])]
  BY <1>0, <1>2, <1>4 DEF Prompts, TextAt, ResultAt
<1>9. CASE prompt = <<TextAt(n, 1)>>
  <2>1. Reply(TextAt(n, 1), n, 1, Before) /\ TextAt(n, 1) \in SaidBlock
    BY <1>6, <1>7
  <2>2. prompt \in Seq(SaidBlock) /\ Len(prompt) = 1 /\ prompt[1] = TextAt(n, 1)
    BY <1>9, <2>1
  <2>3. \A i \in 1..1 : Reply(prompt[i], n, i, Before)
    BY <2>1, <2>2
  <2>. QED
    BY <1>0, <2>2, <2>3, RepliesGood
<1>10. CASE prompt = [i \in 1..k |-> ResultAt(n, i, calls[i])]
  <2>1. \A i \in 1..k : Reply(prompt[i], n, i, Before)
    BY <1>5, <1>10
  <2>2. prompt = [i \in 1..k |-> prompt[i]] /\ \A i \in 1..k : prompt[i] \in SaidBlock
    BY <1>7, <1>10, <2>1
  <2>3. prompt \in Seq(SaidBlock) /\ Len(prompt) = k
    BY <2>2, MadeSeq
  <2>. QED
    BY <1>0, <2>1, <2>3, RepliesGood
<1>11. CASE prompt = Append([i \in 1..k |-> ResultAt(n, i, calls[k + 1 - i])], TextAt(n, k + 1))
  <2>1. PICK s : s = [i \in 1..k |-> ResultAt(n, i, calls[k + 1 - i])]
    OBVIOUS
  <2>2. \A i \in 1..k : Reply(s[i], n, i, Before)
    <3>1. \A i \in 1..k : k + 1 - i \in 1..k
      OBVIOUS
    <3>. QED
      BY <1>5, <2>1, <3>1
  <2>3. s = [i \in 1..k |-> s[i]] /\ \A i \in 1..k : s[i] \in SaidBlock
    BY <1>7, <2>1, <2>2
  <2>4. s \in Seq(SaidBlock) /\ Len(s) = k
    BY <2>3, MadeSeq
  <2>5. PICK x : x = TextAt(n, k + 1)
    OBVIOUS
  <2>6. Reply(x, n, k + 1, Before) /\ x \in SaidBlock
    BY <1>6, <1>7, <2>5
  <2>7. /\ prompt \in Seq(SaidBlock) /\ Len(prompt) = k + 1 /\ prompt[k + 1] = x
        /\ \A i \in 1..k : prompt[i] = s[i]
    BY <1>11, <2>1, <2>4, <2>5, <2>6
  <2>8. \A i \in 1..(k + 1) : Reply(prompt[i], n, i, Before)
    BY <2>2, <2>6, <2>7
  <2>. QED
    BY <1>0, <2>7, <2>8, RepliesGood
<1>12. CASE prompt = <<TextAt(n, 1)>> \o [i \in 1..k |-> ResultAt(n, i + 1, calls[i])]
  <2>1. PICK s : s = [i \in 1..k |-> ResultAt(n, i + 1, calls[i])]
    OBVIOUS
  <2>2. \A i \in 1..k : Reply(s[i], n, i + 1, Before)
    BY <1>5, <2>1
  <2>3. s = [i \in 1..k |-> s[i]] /\ \A i \in 1..k : s[i] \in SaidBlock
    BY <1>7, <2>1, <2>2
  <2>4. s \in Seq(SaidBlock) /\ Len(s) = k
    BY <2>3, MadeSeq
  <2>5. PICK x : x = TextAt(n, 1)
    OBVIOUS
  <2>6. Reply(x, n, 1, Before) /\ x \in SaidBlock
    BY <1>6, <1>7, <2>5
  <2>7. PICK t \in Seq(SaidBlock) : t = <<x>> /\ Len(t) = 1 /\ t[1] = x
    <3>1. <<x>> \in Seq(SaidBlock) /\ Len(<<x>>) = 1 /\ <<x>>[1] = x
      BY <2>6
    <3>. QED
      BY <3>1
  <2>8. prompt = t \o s
    BY <1>12, <2>1, <2>5, <2>7
  <2>9. /\ prompt \in Seq(SaidBlock) /\ Len(prompt) = k + 1 /\ prompt[1] = x
        /\ \A i \in 2..(k + 1) : prompt[i] = s[i - 1]
    BY <2>4, <2>7, <2>8
  <2>10. \A i \in 2..(k + 1) : Reply(s[i - 1], n, i, Before)
    <3>1. \A i \in 2..(k + 1) : i - 1 \in 1..k /\ (i - 1) + 1 = i
      OBVIOUS
    <3>. QED
      BY <2>2, <3>1
  <2>11. \A i \in 1..(k + 1) : Reply(prompt[i], n, i, Before)
    BY <2>6, <2>9, <2>10
  <2>12. PICK l \in Nat : l = k + 1
    OBVIOUS
  <2>. QED
    BY <1>0, <2>9, <2>11, <2>12, RepliesGood
<1>. QED
  BY <1>8, <1>9, <1>10, <1>11, <1>12

-----------------------------------------------------------------------------
(* The conversation.                                                       *)

Api == DOMAIN OutputKind
Sayer == {Null} \cup [model : Name, backend : Api]

\* The blocks before message m.
Previous(messages, m) == IF m = 1 THEN <<>> ELSE messages[m - 1].blocks

\* Every message is in its place, results are of calls of the message before.
GoodTalk(messages, sayers) ==
    /\ messages \in Seq(Message) /\ sayers \in Seq(Sayer) /\ Len(sayers) = Len(messages)
    /\ \A m \in 1..Len(messages) :
          /\ Placed(m, messages[m], sayers[m])
          /\ ResultsOf(messages[m].blocks, Previous(messages, m))

LEMMA TalkGrows ==
    ASSUME NEW messages, NEW sayers, GoodTalk(messages, sayers), NEW message \in Message,
           NEW by \in Sayer, Placed(Len(messages) + 1, message, by),
           ResultsOf(message.blocks, Previous(messages, Len(messages) + 1))
    PROVE  GoodTalk(Append(messages, message), Append(sayers, by))
<1>1. PICK n \in Nat : n = Len(messages) /\ n = Len(sayers)
  BY DEF GoodTalk
<1>2. PICK h : h = Append(messages, message)
  OBVIOUS
<1>3. PICK o : o = Append(sayers, by)
  OBVIOUS
<1>4. /\ h \in Seq(Message) /\ Len(h) = n + 1 /\ h[n + 1] = message
      /\ \A m \in 1..n : h[m] = messages[m]
  BY <1>1, <1>2 DEF GoodTalk
<1>5. /\ o \in Seq(Sayer) /\ Len(o) = n + 1 /\ o[n + 1] = by
      /\ \A m \in 1..n : o[m] = sayers[m]
  BY <1>1, <1>3 DEF GoodTalk
<1>6. \A m \in 1..(n + 1) : Previous(h, m) = Previous(messages, m)
  <2>. SUFFICES ASSUME NEW m \in 1..(n + 1) PROVE Previous(h, m) = Previous(messages, m)
    OBVIOUS
  <2>1. m = 1 \/ m - 1 \in 1..n
    OBVIOUS
  <2>. QED
    BY <1>4, <2>1 DEF Previous
<1>7. ASSUME NEW m \in 1..(n + 1)
      PROVE  Placed(m, h[m], o[m]) /\ ResultsOf(h[m].blocks, Previous(h, m))
  <2>1. CASE m = n + 1
    <3>1. Previous(h, n + 1) = Previous(messages, n + 1)
      BY <1>6, <2>1
    <3>. QED
      BY <1>1, <1>4, <1>5, <2>1, <3>1
  <2>2. CASE m \in 1..n
    <3>1. Placed(m, messages[m], sayers[m]) /\ ResultsOf(messages[m].blocks, Previous(messages, m))
      BY <1>1, <2>2 DEF GoodTalk
    <3>. QED
      BY <1>4, <1>5, <1>6, <2>2, <3>1
  <2>. QED
    BY <2>1, <2>2
<1>. QED
  BY <1>1, <1>2, <1>3, <1>4, <1>5, <1>7 DEF GoodTalk

\* The strengthening: the conversation is good, and the pending request, when it
\* was translated, told all of it to the model it is mapped to.
TalkInv ==
    /\ client \in Client
    /\ GoodTalk(history, outputs)
    /\ sent # Null =>
          /\ sent.backend = Backend(sent.under, requested)
          /\ sent.backend # "anthropic" =>
                /\ Faithful(sent.items, history, sent.backend, MapModel(sent.under, requested))
                /\ CallsHaveIds(history)

LEMMA BackendType ==
    ASSUME NEW d \in Deployment, NEW name
    PROVE  Backend(d, name) \in {"anthropic", "responses", "chat_completions"}
<1>1. d.api \in {"responses", "chat_completions"}
  BY DEF Deployment
<1>. QED
  BY <1>1 DEF Backend

LEMMA UpstreamName ==
    ASSUME NEW d \in Deployment, NEW name \in Name
    PROVE  UpstreamModel(d, name) \in Name
<1>1. d.extra # Null => d.extra \in Model
  BY DEF Deployment
<1>2. MapModel(d, name) \in Name
  BY MapModelName
<1>. QED
  BY <1>1, <1>2 DEF UpstreamModel, Name

\* A translated request goes to the model its carriers were compared with, unless
\* EXTRA_OPENAI_BODY names another.
LEMMA UpstreamMapped ==
    ASSUME NEW d, NEW name, Backend(d, name) # "anthropic", d.extra = Null
    PROVE  UpstreamModel(d, name) = MapModel(d, name)
<1>1. d.protocol # "anthropic"
  BY DEF Backend
<1>. QED
  BY <1>1 DEF UpstreamModel

\* A prompt makes a message.
LEMMA PromptMessage ==
    ASSUME NEW n, NEW prompt, NEW before, GoodPrompt(n, prompt, before), NEW by
    PROVE  LET message == [role |-> "user", blocks |-> prompt]
           IN  message \in Message /\ Placed(n, message, by) /\ ResultsOf(message.blocks, before)
<1>1. PICK message : message = [role |-> "user", blocks |-> prompt]
  OBVIOUS
<1>2. message.role = "user" /\ message.blocks = prompt /\ message \in Message
  BY <1>1 DEF GoodPrompt, Message
<1>3. Placed(n, message, by)
  BY <1>2 DEF GoodPrompt, Placed
<1>. QED
  BY <1>1, <1>2, <1>3 DEF GoodPrompt

LEMMA AnswerMessage ==
    ASSUME NEW n, NEW blocks, NEW model \in Name, GoodAnswer(n, blocks, model), NEW backend \in Api,
           NEW before
    PROVE  LET message == [role |-> "assistant", blocks |-> blocks]
               by == [model |-> model, backend |-> backend]
           IN  /\ message \in Message /\ by \in Sayer /\ Placed(n, message, by)
               /\ ResultsOf(message.blocks, before)
<1>1. PICK message : message = [role |-> "assistant", blocks |-> blocks]
  OBVIOUS
<1>2. PICK by : by = [model |-> model, backend |-> backend]
  OBVIOUS
<1>3. message.role = "assistant" /\ message.blocks = blocks /\ message \in Message
  BY <1>1 DEF GoodAnswer, Message
<1>4. by.model = model /\ by \in Sayer
  BY <1>2 DEF Sayer
<1>5. Placed(n, message, by)
  BY <1>3, <1>4 DEF GoodAnswer, Placed
<1>6. ResultsOf(blocks, before)
  BY DEF GoodAnswer, ResultsOf
<1>. QED
  BY <1>1, <1>2, <1>3, <1>4, <1>5, <1>6

LEMMA SubmitTalk ==
    ASSUME RoutedInv, TalkInv, NEW prompt \in Prompts, Submit(prompt)
    PROVE  TalkInv'
<1>0. PICK h, o, c, d, name : /\ h = history /\ o = outputs /\ c = client /\ d = deployment
                              /\ name = requested
  OBVIOUS
<1>1. /\ history' = Append(history, [role |-> "user", blocks |-> prompt])
      /\ outputs' = Append(outputs, Null) /\ stage = "composing"
      /\ requested' = requested /\ client' = client
  BY DEF Submit
<1>2. PICK message : message = [role |-> "user", blocks |-> prompt]
  OBVIOUS
<1>3. PICK messages : messages = Append(h, message)
  OBVIOUS
<1>4. \/ sent' = Null
      \/ /\ Convert(WithMarks(messages), Backend(d, name), MapModel(d, name)) # Null
         /\ sent'.under = d /\ sent'.backend = Backend(d, name)
         /\ sent'.items = Convert(WithMarks(messages), Backend(d, name), MapModel(d, name))
  BY <1>0, <1>2, <1>3 DEF Submit
<1>5. GoodTalk(h, o)
  BY <1>0 DEF TalkInv
<1>6. h \in Seq(Message) /\ Len(h) \in Nat
  BY <1>5 DEF GoodTalk
<1>7. GoodPrompt(Len(h) + 1, prompt, Before)
  BY <1>0, <1>6, PromptGood
<1>8. PICK before : before = Before
  OBVIOUS
<1>9. before = Previous(h, Len(h) + 1)
  BY <1>0, <1>6, <1>8 DEF Before, Previous, Last
<1>10. /\ message \in Message /\ Placed(Len(h) + 1, message, Null)
       /\ ResultsOf(message.blocks, before)
  BY <1>2, <1>7, <1>8, PromptMessage
<1>11. Null \in Sayer
  BY DEF Sayer
<1>12. GoodTalk(messages, Append(o, Null))
  BY <1>3, <1>5, <1>9, <1>10, <1>11, TalkGrows
<1>13. GoodTalk(history', outputs') /\ history' = messages
  BY <1>0, <1>1, <1>2, <1>3, <1>12
<1>14. ASSUME sent' # Null, Backend(d, name) # "anthropic"
       PROVE  /\ Faithful(sent'.items, messages, Backend(d, name), MapModel(d, name))
              /\ CallsHaveIds(messages)
  <2>1. d \in Deployment
    BY <1>0, DeploymentFacts DEF RoutedInv, PagesInv
  <2>2. PICK backend \in {"responses", "chat_completions"} : backend = Backend(d, name)
    BY <1>14, <2>1, BackendType
  <2>3. /\ messages \in Seq(Message)
        /\ \A m \in 1..Len(messages) : \E by : Placed(m, messages[m], by)
    BY <1>12 DEF GoodTalk
  <2>4. Convert(WithMarks(messages), backend, MapModel(d, name)) # Null
    BY <1>4, <1>14, <2>2
  <2>5. PICK model : model = MapModel(d, name)
    OBVIOUS
  <2>6. /\ Faithful(Convert(WithMarks(messages), backend, model), messages, backend, model)
        /\ CallsHaveIds(messages)
    BY <2>3, <2>4, <2>5, RequestIsFaithful
  <2>. QED
    BY <1>4, <1>14, <2>2, <2>5, <2>6
<1>. QED
  BY <1>0, <1>1, <1>4, <1>13, <1>14 DEF TalkInv

LEMMA AnswerTalk ==
    ASSUME RoutedInv, TalkInv, AnyAnswer
    PROVE  TalkInv'
<1>1. PICK api, model : api = sent.backend /\ model = sent.model
  OBVIOUS
<1>2. api \in Api /\ model \in Name
  <2>1. PICK d, name : d = sent.under /\ name = requested
    OBVIOUS
  <2>2. d \in Deployment /\ name \in Name
    BY <2>1, DeploymentFacts DEF AnyAnswer, RoutedInv
  <2>3. api = Backend(d, name) /\ model = UpstreamModel(d, name)
    BY <1>1, <2>1 DEF AnyAnswer, RoutedInv, TalkInv
  <2>. QED
    BY <2>2, <2>3, BackendType, UpstreamName DEF Api, OutputKind
<1>3. PICK kinds \in Outputs[api] : \E named \in BOOLEAN, streamed \in BOOLEAN : Answer(kinds, named, streamed)
  BY <1>1 DEF AnyAnswer
<1>4. PICK named \in BOOLEAN, streamed \in BOOLEAN : Answer(kinds, named, streamed)
  BY <1>3
<1>5. PICK h, o : h = history /\ o = outputs
  OBVIOUS
<1>6. GoodTalk(h, o) /\ h \in Seq(Message) /\ Len(h) \in Nat
  BY <1>5 DEF TalkInv, GoodTalk
<1>7. PICK n \in Nat : n = Len(h) + 1
  BY <1>6
<1>8. PICK blocks : blocks = Kept(Result(api, model, Uttered(n, kinds, named), streamed))
  OBVIOUS
<1>9. GoodAnswer(n, blocks, model)
  <2>1. PICK shown : shown = Result(api, model, Uttered(n, kinds, named), streamed)
    OBVIOUS
  <2>2. GoodAnswer(n, shown, model)
    BY <1>2, <2>1, ResultGood DEF Api
  <2>3. client \in Client
    BY DEF TalkInv
  <2>. QED
    BY <1>8, <2>1, <2>2, <2>3, KeptGood
<1>10. PICK message, by : /\ message = [role |-> "assistant", blocks |-> blocks]
                          /\ by = [model |-> model, backend |-> api]
  OBVIOUS
<1>11. /\ history' = Append(h, message) /\ outputs' = Append(o, by)
       /\ sent' = Null /\ client' = client
  BY <1>1, <1>4, <1>5, <1>7, <1>8, <1>10 DEF Answer, Uttered
<1>12. /\ message \in Message /\ by \in Sayer /\ Placed(n, message, by)
       /\ ResultsOf(message.blocks, Previous(h, n))
  BY <1>2, <1>9, <1>10, AnswerMessage
<1>13. GoodTalk(Append(h, message), Append(o, by))
  BY <1>6, <1>7, <1>12, TalkGrows
<1>. QED
  BY <1>11, <1>13 DEF TalkInv

LEMMA TalkStep ==
    ASSUME RoutedInv, TalkInv, [SessionNext]_sessionVars
    PROVE  TalkInv'
<1>1. CASE AnyAnswer
  BY <1>1, AnswerTalk
<1>2. ASSUME NEW prompt \in Prompts, Submit(prompt) PROVE TalkInv'
  BY <1>2, SubmitTalk
<1>3. ASSUME UNCHANGED <<requested, client, history, outputs, sent>> PROVE TalkInv'
  BY <1>3 DEF TalkInv
<1>4. CASE Browse
  BY <1>3, <1>4 DEF Browse, talkVars
<1>5. CASE Redeploy
  BY <1>3, <1>5 DEF Redeploy
<1>6. ASSUME NEW name \in Name, Choose(name) PROVE TalkInv'
  <2>1. sent = Null
    BY <1>6 DEF RoutedInv, Choose
  <2>. QED
    BY <1>6, <2>1 DEF TalkInv, Choose
<1>7. CASE UNCHANGED sessionVars
  BY <1>3, <1>7 DEF sessionVars, talkVars
<1>. QED
  BY <1>1, <1>2, <1>4, <1>5, <1>6, <1>7 DEF SessionNext

LEMMA SessionTalks == SessionSpec => []TalkInv
<1>1. ASSUME SessionInit PROVE TalkInv
  <2>1. /\ history = <<>> /\ outputs = <<>> /\ client \in Client /\ sent = Null
    BY <1>1, SessionAssumption DEF SessionInit
  <2>2. <<>> \in Seq(Message) /\ <<>> \in Seq(Sayer) /\ Len(<<>>) = 0
    OBVIOUS
  <2>. QED
    BY <2>1, <2>2 DEF TalkInv, GoodTalk
<1>. QED
  BY <1>1, TalkStep, SessionRouted, PTL DEF SessionSpec

\* Original output only goes to the model that produced it, unless EXTRA_OPENAI_BODY
\* replaces the model after the comparison: whatever the settings were when it was
\* produced and whatever the client kept of it.
THEOREM StateStaysWithModel == SessionSpec => []StateBoundToModel
<1>1. ASSUME RoutedInv, TalkInv PROVE StateBoundToModel
  <2>. SUFFICES ASSUME Translated, sent.under.extra = Null, NEW i \in DOMAIN Items,
                       Items[i].from = "output"
                PROVE  outputs[Items[i].at[1]].model = sent.model
    BY DEF StateBoundToModel
  <2>1. PICK items, h, o, backend, model, d, name :
           /\ items = Items /\ h = history /\ o = outputs /\ backend = sent.backend
           /\ d = sent.under /\ name = requested /\ model = MapModel(d, name)
    OBVIOUS
  <2>2. /\ Faithful(items, h, backend, model) /\ GoodTalk(h, o) /\ backend # "anthropic"
        /\ backend = Backend(d, name) /\ sent.model = UpstreamModel(d, name)
    BY <1>1, <2>1 DEF Translated, Items, TalkInv, RoutedInv
  <2>3. items \in Seq(UpItem)
    BY <2>2 DEF Faithful
  <2>4. PICK x : x = items[i] /\ IsIn(x, items) /\ x.from = "output"
    BY <2>1, <2>3 DEF IsIn
  <2>5. PICK b : IsIn(b, h[x.at[1]].blocks) /\ b.kind = "carrier" /\ b.model = model
    BY <2>2, <2>4 DEF Faithful
  <2>6. PICK m \in 1..Len(h) : x.at[1] = m
    BY <2>2, <2>4 DEF Faithful
  <2>7. Placed(m, h[m], o[m])
    BY <2>2 DEF GoodTalk
  <2>8. o[m].model = model
    BY <2>5, <2>6, <2>7 DEF Placed
  <2>9. sent.model = model
    BY <2>1, <2>2, UpstreamMapped
  <2>. QED
    BY <2>1, <2>4, <2>6, <2>8, <2>9
<1>. QED
  BY <1>1, SessionTalks, SessionRouted, PTL

\* Two places of a message with the same call are one.
LEMMA CallsDiffer ==
    ASSUME NEW blocks, InOrder(blocks, BlockOrder), NEW b, NEW c, IsIn(b, blocks), IsIn(c, blocks),
           Len(blocks) \in Nat, SameCall(b, c)
    PROVE  b = c
<1>1. PICK i \in 1..Len(blocks) : blocks[i] = b
  BY DEF IsIn
<1>2. PICK j \in 1..Len(blocks) : blocks[j] = c
  BY DEF IsIn
<1>3. SameCall(c, b)
  BY DEF SameCall
<1>4. ~(i < j)
  <2>. SUFFICES ASSUME i < j PROVE FALSE
    OBVIOUS
  <2>1. <<b, c>> \in BlockOrder
    BY <1>1, <1>2 DEF InOrder
  <2>. QED
    BY <2>1 DEF BlockOrder
<1>5. ~(j < i)
  <2>. SUFFICES ASSUME j < i PROVE FALSE
    OBVIOUS
  <2>1. <<c, b>> \in BlockOrder
    BY <1>1, <1>2 DEF InOrder
  <2>. QED
    BY <1>3, <2>1 DEF BlockOrder
<1>6. i = j
  BY <1>4, <1>5
<1>. QED
  BY <1>1, <1>2, <1>6

\* The greatest of some numbers below a bound.
LEMMA MaxBelow ==
    ASSUME NEW n \in Nat, NEW T \in SUBSET (1..n), T # {}
    PROVE  Max(T) \in T /\ \A t \in T : Max(T) >= t
<1>. DEFINE U == {u \in 0..n : n - u \in T}
<1>1. U \in SUBSET Nat /\ U # {}
  <2>1. PICK t \in T : t \in 1..n
    OBVIOUS
  <2>2. n - t \in 0..n /\ n - (n - t) = t
    BY <2>1
  <2>3. n - t \in U
    BY <2>2
  <2>4. \A x \in U : x \in Nat
    OBVIOUS
  <2>. HIDE DEF U
  <2>. QED
    BY <2>3, <2>4
<1>2. PICK u \in U : \A v \in U : u <= v
  <2>. HIDE DEF U
  <2>. QED
    BY <1>1, LeastNumber
<1>3. n - u \in T /\ \A t \in T : n - u >= t
  <2>1. n - u \in T /\ u \in 0..n
    OBVIOUS
  <2>2. ASSUME NEW t \in T PROVE n - u >= t
    <3>1. t \in 1..n /\ n - t \in 0..n /\ n - (n - t) = t
      OBVIOUS
    <3>2. n - t \in U
      BY <3>1
    <3>3. u <= n - t
      BY <1>2, <3>2
    <3>. QED
      BY <2>1, <3>1, <3>3
  <2>. QED
    BY <2>1, <2>2
<1>4. \E x \in T : \A y \in T : x >= y
  BY <1>3
<1>. QED
  BY <1>4 DEF Max

\* Every translated request tells the upstream all that the client has of the
\* conversation, each thing once and in the order it was said, whatever happened to
\* the proxy, the settings and the client's own copy of it in between.
THEOREM ConversationIsSeen == SessionSpec => []UpstreamSeesConversation
<1>1. ASSUME TalkInv PROVE UpstreamSeesConversation
  <2>. SUFFICES
         ASSUME Translated
         PROVE  /\ {Items[i].at : i \in DOMAIN Items} =
                      {At(history, p).at : p \in {q \in Places(history) : At(history, q).kind # "carrier"}}
                /\ \A i \in DOMAIN Items : \A j \in DOMAIN Items : i < j =>
                      \/ Items[i].at[1] < Items[j].at[1]
                      \/ Items[i].at[1] = Items[j].at[1] /\ Items[i].at[2] < Items[j].at[2]
                      \/ /\ sent.backend = "chat_completions" /\ Items[i].at[1] = Items[j].at[1]
                         /\ history[Items[i].at[1]].role = "assistant"
                         /\ Items[i].kind # "function_call" /\ Items[j].kind = "function_call"
    BY DEF UpstreamSeesConversation
  <2>1. PICK items, h, o, backend, model :
           /\ items = Items /\ h = history /\ o = outputs /\ backend = sent.backend
           /\ model = MapModel(sent.under, requested)
    OBVIOUS
  <2>2. Faithful(items, h, backend, model) /\ GoodTalk(h, o)
    BY <1>1, <2>1 DEF Translated, Items, TalkInv
  <2>3. /\ items \in Seq(UpItem) /\ h \in Seq(Message) /\ DOMAIN items = 1..Len(items)
        /\ DOMAIN h = 1..Len(h) /\ InOrder(items, Precedes(h, backend))
    BY <2>2 DEF Faithful, GoodTalk
  <2>4. \A m \in 1..Len(h) : h[m].blocks \in Seq(Block) /\ DOMAIN h[m].blocks = 1..Len(h[m].blocks)
    <3>1. \A m \in 1..Len(h) : h[m] \in Message
      BY <2>3
    <3>. QED
      BY <3>1 DEF Message
  <2>5. PICK due : due = {At(h, p).at : p \in {q \in Places(h) : At(h, q).kind # "carrier"}}
    OBVIOUS
  <2>6. \A v : v \in due <=> \E m \in 1..Len(h) : \E b : Shows(h[m].blocks, b) /\ v = b.at
    <3>1. \A q : q \in Places(h) <=> \E m \in 1..Len(h) : \E i \in DOMAIN h[m].blocks : q = <<m, i>>
      <4>1. \A q : q \in Places(h) <=> \E m \in DOMAIN h : q \in {<<m, i>> : i \in DOMAIN h[m].blocks}
        BY DEF Places
      <4>. QED
        BY <2>3, <4>1
    <3>2. \A m, i : At(h, <<m, i>>) = h[m].blocks[i]
      BY DEF At
    <3>3. ASSUME NEW v \in due
          PROVE  \E m \in 1..Len(h) : \E b : Shows(h[m].blocks, b) /\ v = b.at
      <4>1. PICK q \in Places(h) : At(h, q).kind # "carrier" /\ v = At(h, q).at
        BY <2>5
      <4>2. PICK m \in 1..Len(h) : \E i \in DOMAIN h[m].blocks : q = <<m, i>>
        BY <3>1
      <4>3. PICK i \in DOMAIN h[m].blocks : q = <<m, i>>
        BY <4>2
      <4>4. PICK b : b = h[m].blocks[i]
        OBVIOUS
      <4>5. b.kind # "carrier" /\ v = b.at
        BY <3>2, <4>1, <4>3, <4>4
      <4>6. IsIn(b, h[m].blocks)
        BY <2>4, <4>4 DEF IsIn
      <4>. QED
        BY <4>5, <4>6 DEF Shows
    <3>4. ASSUME NEW m \in 1..Len(h), NEW b, Shows(h[m].blocks, b)
          PROVE  b.at \in due
      <4>1. PICK i \in 1..Len(h[m].blocks) : h[m].blocks[i] = b
        BY <3>4 DEF Shows, IsIn
      <4>2. PICK q : q = <<m, i>>
        OBVIOUS
      <4>3. q \in Places(h) /\ At(h, q) = b
        BY <2>4, <3>1, <3>2, <4>1, <4>2
      <4>4. b.kind # "carrier"
        BY <3>4 DEF Shows
      <4>. QED
        BY <2>5, <4>3, <4>4
    <3>. QED
      BY <3>3, <3>4
  <2>7. \A v : v \in {items[i].at : i \in DOMAIN items} <=> \E x : IsIn(x, items) /\ v = x.at
    BY <2>3 DEF IsIn
  <2>8. {items[i].at : i \in DOMAIN items} = due
    <3>1. ASSUME NEW x, IsIn(x, items) PROVE x.at \in due
      <4>1. PICK m \in 1..Len(h) : \E b : Shows(h[m].blocks, b) /\ Stands(x, b)
        BY <2>2, <3>1 DEF Faithful
      <4>2. PICK b : Shows(h[m].blocks, b) /\ Stands(x, b)
        BY <4>1
      <4>3. x.at = b.at
        BY <4>2 DEF Stands
      <4>. QED
        BY <2>6, <4>2, <4>3
    <3>2. ASSUME NEW m \in 1..Len(h), NEW b, Shows(h[m].blocks, b)
          PROVE  \E x : IsIn(x, items) /\ b.at = x.at
      <4>1. PICK x : IsIn(x, items) /\ Stands(x, b)
        BY <2>2, <3>2 DEF Faithful
      <4>. QED
        BY <4>1 DEF Stands
    <3>3. PICK T : T = {items[i].at : i \in DOMAIN items}
      OBVIOUS
    <3>4. \A v : v \in T <=> \E x : IsIn(x, items) /\ v = x.at
      BY <2>7, <3>3
    <3>5. \A v : v \in T => v \in due
      BY <3>1, <3>4
    <3>6. \A v : v \in due => v \in T
      BY <2>6, <3>2, <3>4
    <3>7. T = due
      BY <3>5, <3>6
    <3>. QED
      BY <3>3, <3>7
  <2>9. ASSUME NEW i \in DOMAIN items, NEW j \in DOMAIN items, i < j
        PROVE  \/ items[i].at[1] < items[j].at[1]
               \/ items[i].at[1] = items[j].at[1] /\ items[i].at[2] < items[j].at[2]
               \/ /\ backend = "chat_completions" /\ items[i].at[1] = items[j].at[1]
                  /\ h[items[i].at[1]].role = "assistant"
                  /\ items[i].kind # "function_call" /\ items[j].kind = "function_call"
    <3>1. <<items[i], items[j]>> \in Precedes(h, backend)
      BY <2>3, <2>9 DEF InOrder
    <3>2. PICK x, y : x = items[i] /\ y = items[j]
      OBVIOUS
    <3>3. \/ x.at[1] < y.at[1]
          \/ x.at[1] = y.at[1] /\ <<x, y>> \in ItemOrder(backend, h[x.at[1]].role)
      BY <3>1, <3>2 DEF Precedes
    <3>4. <<x, y>> \in ItemOrder(backend, h[x.at[1]].role) =>
             \/ x.at[2] < y.at[2]
             \/ /\ backend = "chat_completions" /\ h[x.at[1]].role = "assistant"
                /\ x.kind # "function_call" /\ y.kind = "function_call"
      BY DEF ItemOrder, CallLast
    <3>. QED
      BY <3>2, <3>3, <3>4
  <2>10. {Items[i].at : i \in DOMAIN Items} =
            {At(history, p).at : p \in {q \in Places(history) : At(history, q).kind # "carrier"}}
    <3>1. {Items[i].at : i \in DOMAIN Items} = {items[i].at : i \in DOMAIN items}
      BY <2>1
    <3>2. history = h
      BY <2>1
    <3>3. {At(history, p).at : p \in {q \in Places(history) : At(history, q).kind # "carrier"}} =
          {At(h, p).at : p \in {q \in Places(h) : At(h, q).kind # "carrier"}}
      BY <3>2
    <3>. QED
      BY <2>5, <2>8, <3>1, <3>3
  <2>11. ASSUME NEW i \in DOMAIN Items, NEW j \in DOMAIN Items, i < j
         PROVE  \/ Items[i].at[1] < Items[j].at[1]
                \/ Items[i].at[1] = Items[j].at[1] /\ Items[i].at[2] < Items[j].at[2]
                \/ /\ sent.backend = "chat_completions" /\ Items[i].at[1] = Items[j].at[1]
                   /\ history[Items[i].at[1]].role = "assistant"
                   /\ Items[i].kind # "function_call" /\ Items[j].kind = "function_call"
    <3>1. i \in DOMAIN items /\ j \in DOMAIN items
      BY <2>1, <2>11
    <3>. QED
      BY <2>1, <2>9, <2>11, <3>1
  <2>. QED
    BY <2>10, <2>11
<1>. QED
  BY <1>1, SessionTalks, PTL

\* Every tool result the upstream is sent names, by its id, the call the client made
\* it for, the last one with that id before it: also when an id was made up for the
\* call, and when another answer used the same one.
THEOREM ResultsFindTheirCalls == SessionSpec => []ResultsReachTheirCalls
<1>1. ASSUME TalkInv PROVE ResultsReachTheirCalls
  <2>. SUFFICES ASSUME Translated, NEW i \in DOMAIN Items, Items[i].kind = "function_call_output"
                PROVE  LET calls == {j \in 1..(i - 1) : Items[j].kind = "function_call"
                                                        /\ Items[j].id = Items[i].id}
                       IN  calls # {} /\ Items[Max(calls)].at = Items[i].about
    BY DEF ResultsReachTheirCalls
  <2>1. PICK items, h, o, backend, model :
           /\ items = Items /\ h = history /\ o = outputs /\ backend = sent.backend
           /\ model = MapModel(sent.under, requested)
    OBVIOUS
  <2>2. Faithful(items, h, backend, model) /\ GoodTalk(h, o) /\ CallsHaveIds(h)
    BY <1>1, <2>1 DEF Translated, Items, TalkInv
  <2>3. /\ items \in Seq(UpItem) /\ h \in Seq(Message) /\ DOMAIN items = 1..Len(items)
        /\ InOrder(items, Precedes(h, backend)) /\ Len(items) \in Nat /\ Len(h) \in Nat
    BY <2>2 DEF Faithful, GoodTalk
  <2>4. i \in 1..Len(items) /\ i \in Nat
    BY <2>1, <2>3
  <2>5. \A j \in 1..Len(items) : IsIn(items[j], items)
    BY DEF IsIn
  <2>6. PICK x : x = items[i]
    OBVIOUS
  <2>7. x.kind = "function_call_output" /\ IsIn(x, items)
    BY <2>1, <2>4, <2>5, <2>6
  <2>8. PICK m \in 1..Len(h) : \E b : Shows(h[m].blocks, b) /\ Stands(x, b) /\ x.at[1] = m
    BY <2>2, <2>7 DEF Faithful
  <2>9. PICK b : Shows(h[m].blocks, b) /\ Stands(x, b) /\ x.at[1] = m
    BY <2>8
  <2>10. /\ IsIn(b, h[m].blocks) /\ b.kind = "tool_result" /\ x.id = b.id /\ x.about = b.about
    BY <2>7, <2>9 DEF Stands, Shows
  <2>11. PICK c : IsIn(c, Previous(h, m)) /\ c.kind = "tool_use" /\ c.id = b.id /\ c.at = b.about
    BY <2>2, <2>10 DEF GoodTalk, ResultsOf
  <2>12. m # 1
    <3>. SUFFICES ASSUME m = 1 PROVE FALSE
      OBVIOUS
    <3>1. IsIn(c, <<>>)
      BY <2>11 DEF Previous
    <3>. QED
      BY <3>1 DEF IsIn
  <2>13. PICK l \in 1..Len(h) : l = m - 1
    <3>1. m - 1 \in 1..Len(h)
      BY <2>3, <2>12
    <3>. QED
      BY <3>1
  <2>14. IsIn(c, h[l].blocks)
    BY <2>11, <2>12, <2>13 DEF Previous
  <2>15. Shows(h[l].blocks, c)
    BY <2>11, <2>14 DEF Shows
  <2>16. PICK y : IsIn(y, items) /\ Stands(y, c)
    BY <2>2, <2>15 DEF Faithful
  <2>17. /\ Placed(l, h[l], o[l]) /\ Placed(m, h[m], o[m])
    BY <2>2 DEF GoodTalk
  <2>18. y.kind = "function_call" /\ y.id = c.id /\ y.at[1] = l
    BY <2>11, <2>15, <2>16, <2>17 DEF Stands, Placed
  <2>19. PICK j \in 1..Len(items) : items[j] = y
    BY <2>16 DEF IsIn
  <2>20. \A p, q \in 1..Len(items) : p < q => items[p].at[1] <= items[q].at[1]
    <3>. SUFFICES ASSUME NEW p \in 1..Len(items), NEW q \in 1..Len(items), p < q
                  PROVE  items[p].at[1] <= items[q].at[1]
      OBVIOUS
    <3>1. PICK u, v : u = items[p] /\ v = items[q]
      OBVIOUS
    <3>2. u \in UpItem /\ v \in UpItem
      BY <2>3, <3>1
    <3>3. <<u, v>> \in Precedes(h, backend)
      BY <2>3, <3>1 DEF InOrder
    <3>4. u.at[1] < v.at[1] \/ u.at[1] = v.at[1]
      BY <3>3 DEF Precedes
    <3>5. u.at[1] \in Nat /\ v.at[1] \in Nat
      BY <3>2 DEF UpItem, Coordinate
    <3>. QED
      BY <3>1, <3>4, <3>5
  <2>21. j < i
    <3>1. ~(i < j)
      <4>. SUFFICES ASSUME i < j PROVE FALSE
        OBVIOUS
      <4>1. m <= l
        BY <2>4, <2>6, <2>9, <2>18, <2>19, <2>20
      <4>. QED
        BY <2>13, <4>1
    <3>2. i # j
      BY <2>6, <2>7, <2>18, <2>19
    <3>. QED
      BY <2>4, <3>1, <3>2
  <2>22. PICK calls : calls = {k \in 1..(i - 1) : items[k].kind = "function_call" /\ items[k].id = x.id}
    OBVIOUS
  <2>23. j \in calls
    BY <2>4, <2>10, <2>11, <2>18, <2>19, <2>21, <2>22
  <2>24. PICK k \in calls : k = Max(calls)
    <3>1. i - 1 \in Nat /\ calls \in SUBSET (1..(i - 1)) /\ calls # {}
      BY <2>4, <2>22, <2>23
    <3>2. PICK n \in Nat : n = i - 1
      BY <3>1
    <3>3. Max(calls) \in calls
      BY <3>1, <3>2, MaxBelow
    <3>. QED
      BY <3>3
  <2>25. k >= j
    <3>1. PICK n \in Nat : n = i - 1
      BY <2>4
    <3>2. \A t \in calls : Max(calls) >= t
      <4>1. calls \in SUBSET (1..n) /\ calls # {}
        BY <2>22, <2>23, <3>1
      <4>. QED
        BY <4>1, MaxBelow
    <3>. QED
      BY <2>23, <2>24, <3>2
  <2>26. PICK z : z = items[k]
    OBVIOUS
  <2>27. k \in 1..Len(items) /\ k < i /\ z.kind = "function_call" /\ z.id = x.id /\ IsIn(z, items)
    BY <2>4, <2>5, <2>22, <2>26
  <2>28. PICK n \in 1..Len(h) : \E e : Shows(h[n].blocks, e) /\ Stands(z, e) /\ z.at[1] = n
    BY <2>2, <2>27 DEF Faithful
  <2>29. PICK e : Shows(h[n].blocks, e) /\ Stands(z, e) /\ z.at[1] = n
    BY <2>28
  <2>30. IsIn(e, h[n].blocks) /\ e.kind = "tool_use" /\ e.id = z.id /\ e.at = z.at
    BY <2>27, <2>29 DEF Stands, Shows
  <2>31. n <= m
    BY <2>4, <2>6, <2>9, <2>20, <2>26, <2>27, <2>29
  <2>32. l <= n
    <3>1. CASE j = k
      BY <2>13, <2>18, <2>19, <2>26, <2>29, <3>1
    <3>2. CASE j < k
      BY <2>18, <2>19, <2>20, <2>26, <2>27, <2>29, <3>2
    <3>. QED
      BY <2>25, <2>27, <3>1, <3>2
  <2>33. n # m
    <3>. SUFFICES ASSUME n = m PROVE FALSE
      OBVIOUS
    <3>1. h[m].role \in {"user", "assistant"}
      <4>1. h[m] \in Message
        BY <2>3
      <4>. QED
        BY <4>1 DEF Message
    <3>. QED
      BY <2>10, <2>17, <2>30, <3>1 DEF Placed
  <2>34. n = l
    BY <2>13, <2>31, <2>32, <2>33
  <2>35. SameCall(e, c)
    <3>1. e.id # NoId
      BY <2>2, <2>30 DEF CallsHaveIds
    <3>. QED
      BY <2>10, <2>11, <2>27, <2>30, <3>1 DEF SameCall
  <2>36. e = c
    <3>1. Len(h[l].blocks) \in Nat
      <4>1. h[l] \in Message
        BY <2>3
      <4>. QED
        BY <4>1 DEF Message
    <3>2. InOrder(h[l].blocks, BlockOrder)
      BY <2>17 DEF Placed
    <3>. QED
      BY <2>14, <2>30, <2>34, <2>35, <3>1, <3>2, CallsDiffer
  <2>37. items[k].at = x.about
    BY <2>10, <2>11, <2>26, <2>30, <2>36
  <2>. QED
    BY <2>1, <2>6, <2>22, <2>23, <2>24, <2>37
<1>. QED
  BY <1>1, SessionTalks, PTL

-----------------------------------------------------------------------------
(* Why a conversation is rejected.                                         *)

\* Blocks one by one: f has the ones of the kinds, g the others.
TakenApart(f, g, blocks, kinds) ==
    /\ Len(f) = Len(blocks) /\ Len(g) = Len(blocks)
    /\ \A b \in 1..Len(blocks) :
          IF blocks[b].kind \in kinds THEN f[b] = <<blocks[b]>> /\ g[b] = <<>>
          ELSE f[b] = <<>> /\ g[b] = <<blocks[b]>>

ComeApart(S, blocks, kinds) ==
    \E f, g \in Seq(Seq(S)) :
       /\ TakenApart(f, g, blocks, kinds)
       /\ Only(blocks, kinds) = FlattenSeq(f) /\ Without(blocks, kinds) = FlattenSeq(g)

LEMMA PickedPieces ==
    ASSUME NEW S, NEW blocks \in Seq(S), NEW kinds
    PROVE  ComeApart(S, blocks, kinds)
<1>1. PICK n \in Nat : n = Len(blocks) /\ DOMAIN blocks = 1..n /\ \A i \in 1..n : blocks[i] \in S
  OBVIOUS
<1>2. PICK f : f = [b \in DOMAIN blocks |-> IF blocks[b].kind \in kinds THEN <<blocks[b]>> ELSE <<>>]
  OBVIOUS
<1>3. PICK g : g = [b \in DOMAIN blocks |-> IF blocks[b].kind \in kinds THEN <<>> ELSE <<blocks[b]>>]
  OBVIOUS
<1>4. \A e \in S : <<e>> \in Seq(S)
  OBVIOUS
<1>5. <<>> \in Seq(S)
  OBVIOUS
<1>6. /\ f = [b \in 1..n |-> f[b]] /\ \A b \in 1..n : f[b] \in Seq(S)
      /\ g = [b \in 1..n |-> g[b]] /\ \A b \in 1..n : g[b] \in Seq(S)
  BY <1>1, <1>2, <1>3, <1>4, <1>5
<1>7. f \in Seq(Seq(S)) /\ Len(f) = n /\ g \in Seq(Seq(S)) /\ Len(g) = n
  BY <1>6, PartsSeq
<1>8. \A b \in 1..n : IF blocks[b].kind \in kinds
                      THEN f[b] = <<blocks[b]>> /\ g[b] = <<>>
                      ELSE f[b] = <<>> /\ g[b] = <<blocks[b]>>
  BY <1>1, <1>2, <1>3
<1>9. TakenApart(f, g, blocks, kinds)
  BY <1>1, <1>7, <1>8 DEF TakenApart
<1>10. Only(blocks, kinds) = FlattenSeq(f) /\ Without(blocks, kinds) = FlattenSeq(g)
  BY <1>2, <1>3 DEF Only, Without
<1>. QED
  BY <1>7, <1>9, <1>10 DEF ComeApart

\* Blocks all of the kinds, or none of them.
LEMMA PickedAllOrNone ==
    ASSUME NEW S, NEW blocks \in Seq(S), NEW kinds
    PROVE  /\ (\A b : IsIn(b, blocks) => b.kind \in kinds) =>
                 Only(blocks, kinds) = blocks /\ Without(blocks, kinds) = <<>>
           /\ (\A b : IsIn(b, blocks) => b.kind \notin kinds) =>
                 Only(blocks, kinds) = <<>> /\ Without(blocks, kinds) = blocks
<1>1. PICK f, g \in Seq(Seq(S)) :
         /\ TakenApart(f, g, blocks, kinds)
         /\ Only(blocks, kinds) = FlattenSeq(f) /\ Without(blocks, kinds) = FlattenSeq(g)
  <2>1. ComeApart(S, blocks, kinds)
    BY PickedPieces
  <2>. QED
    BY <2>1 DEF ComeApart
<1>2. /\ Len(f) = Len(blocks) /\ Len(g) = Len(blocks)
      /\ \A b \in 1..Len(blocks) :
            IF blocks[b].kind \in kinds THEN f[b] = <<blocks[b]>> /\ g[b] = <<>>
            ELSE f[b] = <<>> /\ g[b] = <<blocks[b]>>
  BY <1>1 DEF TakenApart
<1>4. \A b \in 1..Len(blocks) : IsIn(blocks[b], blocks)
  BY DEF IsIn
<1>5. ASSUME \A b : IsIn(b, blocks) => b.kind \in kinds
      PROVE  FlattenSeq(f) = blocks /\ FlattenSeq(g) = <<>>
  <2>1. \A b \in 1..Len(blocks) : f[b] = <<blocks[b]>> /\ g[b] = <<>>
    BY <1>2, <1>4, <1>5
  <2>2. \A b \in 1..Len(g) : g[b] = <<>>
    BY <1>2, <2>1
  <2>3. FlattenSeq(f) = blocks
    BY <1>2, <2>1, FlattenSingles
  <2>. QED
    BY <1>2, <2>2, <2>3, FlattenNothing
<1>6. ASSUME \A b : IsIn(b, blocks) => b.kind \notin kinds
      PROVE  FlattenSeq(f) = <<>> /\ FlattenSeq(g) = blocks
  <2>1. \A b \in 1..Len(blocks) : g[b] = <<blocks[b]>> /\ f[b] = <<>>
    BY <1>2, <1>4, <1>6
  <2>2. \A b \in 1..Len(f) : f[b] = <<>>
    BY <1>2, <2>1
  <2>3. FlattenSeq(g) = blocks
    BY <1>2, <2>1, FlattenSingles
  <2>. QED
    BY <1>2, <2>2, <2>3, FlattenNothing
<1>. QED
  BY <1>1, <1>5, <1>6

\* What is picked of two sequences in a row.
LEMMA PickedOfSplit ==
    ASSUME NEW S, NEW a \in Seq(S), NEW b \in Seq(S), NEW s, Splits(s, a, b), NEW kinds
    PROVE  /\ Splits(Only(s, kinds), Only(a, kinds), Only(b, kinds))
           /\ Splits(Without(s, kinds), Without(a, kinds), Without(b, kinds))
<1>0. /\ s \in Seq(S) /\ Len(a) \in Nat /\ Len(b) \in Nat /\ Len(s) = Len(a) + Len(b)
      /\ \A i \in 1..Len(a) : s[i] = a[i]
      /\ \A i \in 1..Len(b) : s[Len(a) + i] = b[i]
  BY ElementsOfSplit
<1>1. PICK fs, gs \in Seq(Seq(S)) :
         /\ TakenApart(fs, gs, s, kinds)
         /\ Only(s, kinds) = FlattenSeq(fs) /\ Without(s, kinds) = FlattenSeq(gs)
  <2>1. ComeApart(S, s, kinds)
    BY <1>0, PickedPieces
  <2>. QED
    BY <2>1 DEF ComeApart
<1>2. PICK fa, ga \in Seq(Seq(S)) :
         /\ TakenApart(fa, ga, a, kinds)
         /\ Only(a, kinds) = FlattenSeq(fa) /\ Without(a, kinds) = FlattenSeq(ga)
  <2>1. ComeApart(S, a, kinds)
    BY PickedPieces
  <2>. QED
    BY <2>1 DEF ComeApart
<1>3. PICK fb, gb \in Seq(Seq(S)) :
         /\ TakenApart(fb, gb, b, kinds)
         /\ Only(b, kinds) = FlattenSeq(fb) /\ Without(b, kinds) = FlattenSeq(gb)
  <2>1. ComeApart(S, b, kinds)
    BY PickedPieces
  <2>. QED
    BY <2>1 DEF ComeApart
<1>4. /\ Len(fs) = Len(s) /\ Len(gs) = Len(s)
      /\ Len(fa) = Len(a) /\ Len(ga) = Len(a) /\ Len(fb) = Len(b) /\ Len(gb) = Len(b)
  BY <1>1, <1>2, <1>3 DEF TakenApart
<1>6. \A i \in 1..Len(a) : fs[i] = fa[i] /\ gs[i] = ga[i]
  <2>1. \A i \in 1..Len(a) : i \in 1..Len(s)
    BY <1>0
  <2>. QED
    BY <1>0, <1>1, <1>2, <2>1 DEF TakenApart
<1>7. \A i \in 1..Len(b) : fs[Len(a) + i] = fb[i] /\ gs[Len(a) + i] = gb[i]
  <2>1. \A i \in 1..Len(b) : Len(a) + i \in 1..Len(s)
    BY <1>0
  <2>. QED
    BY <1>0, <1>1, <1>3, <2>1 DEF TakenApart
<1>8. Splits(FlattenSeq(fs), FlattenSeq(fa), FlattenSeq(fb))
  <2>1. Len(fs) = Len(fa) + Len(fb)
    BY <1>0, <1>4
  <2>2. \A i \in 1..Len(fa) : fs[i] = fa[i]
    BY <1>4, <1>6
  <2>3. \A i \in 1..Len(fb) : fs[Len(fa) + i] = fb[i]
    BY <1>4, <1>7
  <2>. QED
    BY <2>1, <2>2, <2>3, FlattenSplit
<1>9. Splits(FlattenSeq(gs), FlattenSeq(ga), FlattenSeq(gb))
  <2>1. Len(gs) = Len(ga) + Len(gb)
    BY <1>0, <1>4
  <2>2. \A i \in 1..Len(ga) : gs[i] = ga[i]
    BY <1>4, <1>6
  <2>3. \A i \in 1..Len(gb) : gs[Len(ga) + i] = gb[i]
    BY <1>4, <1>7
  <2>. QED
    BY <2>1, <2>2, <2>3, FlattenSplit
<1>. QED
  BY <1>1, <1>2, <1>3, <1>8, <1>9

\* The blocks that only the backend they come from can take back.
Opaque == {"carrier", "reasoning", "thinking"}

\* An answer of the Responses API as it was sent: the carrier of its output, and the
\* blocks that output is shown as.
Whole(blocks, model) ==
    \E out \in Seq(Outcome) :
       Carriers(blocks) = <<Carrier(model, out)>> /\ Visible(blocks) = VisibleBlocks(out)

\* Nobody marked it, and each kind of opaque block has its backend.
Fresh(blocks, backend) ==
    \A b : IsIn(b, blocks) =>
        /\ b.mark = FALSE
        /\ b.kind = "thinking" => backend = "anthropic"
        /\ b.kind \in {"carrier", "reasoning"} => backend = "responses"

\* An answer as the client has it.
Shaped(blocks, model, backend, keeps) ==
    /\ Fresh(blocks, backend)
    /\ keeps = "noReasoning" => \A b : IsIn(b, blocks) => b.kind \notin Opaque
    /\ keeps = "everything" /\ backend = "responses" => Whole(blocks, model)

\* The block an item is shown as is as opaque as the item.
LEMMA ShownFresh ==
    ASSUME NEW api \in DOMAIN OutputKind, NEW out \in Seq(AnyOutcome),
           \A i \in 1..Len(out) : out[i].kind \in OutputKind[api]
    PROVE  /\ Fresh(VisibleBlocks(out), api)
           /\ \A b : IsIn(b, VisibleBlocks(out)) => b.kind # "carrier"
<1>1. PICK k \in Nat : k = Len(out) /\ DOMAIN out = 1..k
  OBVIOUS
<1>2. PICK s : s = VisibleBlocks(out)
  OBVIOUS
<1>3. /\ s = [i \in 1..k |-> s[i]]
      /\ \A i \in 1..k : s[i] = Said(BlockKind(out[i]), out[i].id, out[i].at)
  BY <1>1, <1>2 DEF VisibleBlocks
<1>4. \A i \in 1..k : s[i].kind = BlockKind(out[i]) /\ s[i].mark = FALSE
  BY <1>3 DEF Said
<1>5. \A x : IsIn(x, s) => \E i \in 1..k : s[i] = x
  <2>1. s = [i \in 1..k |-> s[i]] /\ \A i \in 1..k : s[i] \in {s[j] : j \in 1..k}
    BY <1>3
  <2>2. Len(s) = k
    BY <2>1, MadeSeq
  <2>. QED
    BY <2>2 DEF IsIn
<1>6. ASSUME NEW i \in 1..k
      PROVE  /\ BlockKind(out[i]) # "carrier"
             /\ BlockKind(out[i]) = "thinking" => api = "anthropic"
             /\ BlockKind(out[i]) = "reasoning" => api = "responses"
  <2>1. PICK item : item = out[i] /\ item.kind \in OutputKind[api]
    BY <1>1
  <2>2. /\ api \in {"responses", "chat_completions", "anthropic"}
        /\ api = "responses" => item.kind \in {"reasoning", "output_text", "refusal", "function_call"}
        /\ api = "chat_completions" => item.kind \in {"output_text", "refusal", "function_call"}
        /\ api = "anthropic" => item.kind \in {"thinking", "text", "tool_use"}
    BY <2>1 DEF OutputKind
  <2>3. \/ BlockKind(item) \in {"tool_use", "text"}
        \/ BlockKind(item) = item.kind
    BY DEF BlockKind
  <2>. QED
    BY <2>1, <2>2, <2>3
<1>. QED
  BY <1>2, <1>4, <1>5, <1>6 DEF Fresh

\* The carrier next to what is shown.
LEMMA CarrierWhole ==
    ASSUME NEW shown \in Seq(Block), \A b : IsIn(b, shown) => b.kind # "carrier",
           NEW carrier \in CarrierBlock, NEW s,
           \/ Splits(s, shown, <<carrier>>)
           \/ Splits(s, <<carrier>>, shown)
    PROVE  Carriers(s) = <<carrier>> /\ Visible(s) = shown
<1>1. carrier \in Block /\ carrier.kind = "carrier"
  BY DEF CarrierBlock, Block
<1>2. PICK c \in Seq(Block) : c = <<carrier>> /\ Len(c) = 1 /\ c[1] = carrier
  <2>1. <<carrier>> \in Seq(Block) /\ Len(<<carrier>>) = 1 /\ <<carrier>>[1] = carrier
    BY <1>1
  <2>. QED
    BY <2>1
<1>3. \A b : IsIn(b, c) => b.kind \in {"carrier"}
  BY <1>1, <1>2 DEF IsIn
<1>4. \A b : IsIn(b, shown) => b.kind \notin {"carrier"}
  OBVIOUS
<1>5. Only(c, {"carrier"}) = c /\ Without(c, {"carrier"}) = <<>>
  BY <1>3, PickedAllOrNone
<1>6. Only(shown, {"carrier"}) = <<>> /\ Without(shown, {"carrier"}) = shown
  BY <1>4, PickedAllOrNone
<1>7. PICK cs, vs : cs = Only(s, {"carrier"}) /\ vs = Without(s, {"carrier"})
  OBVIOUS
<1>8. CASE Splits(s, shown, <<carrier>>)
  <2>1. Splits(s, shown, c)
    BY <1>2, <1>8
  <2>2. Splits(cs, <<>>, c) /\ Splits(vs, shown, <<>>)
    BY <1>5, <1>6, <1>7, <2>1, PickedOfSplit
  <2>. QED
    BY <1>2, <1>7, <2>2 DEF Splits, Carriers, Visible
<1>9. CASE Splits(s, <<carrier>>, shown)
  <2>1. Splits(s, c, shown)
    BY <1>2, <1>9
  <2>2. Splits(cs, c, <<>>) /\ Splits(vs, <<>>, shown)
    BY <1>5, <1>6, <1>7, <2>1, PickedOfSplit
  <2>. QED
    BY <1>2, <1>7, <2>2 DEF Splits, Carriers, Visible
<1>. QED
  BY <1>8, <1>9

LEMMA ResultShaped ==
    ASSUME NEW n \in Nat, NEW api \in DOMAIN OutputKind, NEW kinds \in Outputs[api],
           NEW named \in BOOLEAN, NEW streamed \in BOOLEAN, NEW model \in Name
    PROVE  LET blocks == Result(api, model, Uttered(n, kinds, named), streamed)
           IN  Fresh(blocks, api) /\ (api = "responses" => Whole(blocks, model))
<1>1. kinds \in Seq(OutputKind[api])
  BY SessionAssumption
<1>2. PICK out : out = Uttered(n, kinds, named)
  OBVIOUS
<1>3. /\ out \in Seq(AnyOutcome) /\ (api = "responses" => out \in Seq(Outcome))
      /\ \A i \in 1..Len(out) : out[i].kind \in OutputKind[api]
  <2>1. NewOutput(n, out) /\ (api = "responses" => out \in Seq(Outcome))
    BY <1>1, <1>2, UtteredNew
  <2>2. out \in Seq(AnyOutcome)
    BY <2>1 DEF NewOutput
  <2>3. PICK k \in Nat : k = Len(kinds) /\ DOMAIN kinds = 1..k /\ \A i \in 1..k : kinds[i] \in OutputKind[api]
    BY <1>1
  <2>4. DOMAIN out = 1..k /\ \A i \in 1..k : out[i].kind = kinds[i]
    BY <1>2, <2>3 DEF Uttered, Said
  <2>5. Len(out) = k
    BY <2>2, <2>4
  <2>. QED
    BY <2>1, <2>2, <2>3, <2>4, <2>5
<1>4. PICK shown : shown = VisibleBlocks(out)
  OBVIOUS
<1>5. Fresh(shown, api) /\ \A b : IsIn(b, shown) => b.kind # "carrier"
  BY <1>3, <1>4, ShownFresh
<1>6. CASE api = "responses"
  <2>1. PICK carrier : carrier = Carrier(model, out)
    OBVIOUS
  <2>2. carrier \in CarrierBlock /\ carrier.kind = "carrier" /\ carrier.mark = FALSE
    BY <1>3, <1>6, <2>1 DEF Carrier, CarrierBlock
  <2>3. shown \in Seq(Block) /\ carrier \in Block
    <3>1. NewOutput(n, out)
      BY <1>1, <1>2, UtteredNew
    <3>2. GoodAnswer(n, shown, model)
      BY <1>4, <3>1, NewShown
    <3>. QED
      BY <2>2, <3>2 DEF GoodAnswer, Block
  <2>4. PICK s : s = Result(api, model, out, streamed)
    OBVIOUS
  <2>5. s = IF streamed THEN Append(shown, carrier) ELSE <<carrier>> \o shown
    BY <1>4, <1>6, <2>1, <2>4 DEF Result, ResponsesResult
  <2>6. Append(shown, carrier) = shown \o <<carrier>>
    BY <2>3
  <2>7. Splits(s, shown, <<carrier>>) \/ Splits(s, <<carrier>>, shown)
    BY <2>5, <2>6 DEF Splits
  <2>8. Carriers(s) = <<carrier>> /\ Visible(s) = shown
    BY <1>5, <2>2, <2>3, <2>7, CarrierWhole
  <2>9. Whole(s, model)
    BY <1>3, <1>4, <1>6, <2>1, <2>8 DEF Whole
  <2>10. PICK c \in Seq(Block) : c = <<carrier>> /\ \A x : IsIn(x, c) => x = carrier
    <3>1. PICK c \in Seq(Block) : c = <<carrier>> /\ Len(c) = 1 /\ c[1] = carrier
      <4>1. <<carrier>> \in Seq(Block) /\ Len(<<carrier>>) = 1 /\ <<carrier>>[1] = carrier
        BY <2>3
      <4>. QED
        BY <4>1
    <3>2. \A x : IsIn(x, c) => x = carrier
      BY <3>1 DEF IsIn
    <3>. QED
      BY <3>1, <3>2
  <2>11. \A x : IsIn(x, s) => IsIn(x, shown) \/ x = carrier
    <3>1. Splits(s, shown, c) \/ Splits(s, c, shown)
      BY <2>7, <2>10
    <3>2. \A x : IsIn(x, s) => IsIn(x, shown) \/ IsIn(x, c)
      BY <2>3, <3>1, InSplit
    <3>. QED
      BY <2>10, <3>2
  <2>12. Fresh(s, api)
    BY <1>5, <1>6, <2>2, <2>11 DEF Fresh
  <2>. QED
    BY <1>2, <2>4, <2>9, <2>12
<1>7. CASE api = "chat_completions"
  <2>1. PICK ids : ids = WithIds(out, streamed)
    OBVIOUS
  <2>2. ids \in Seq(AnyOutcome)
    <3>1. Len(kinds) <= Len(FallbackId)
      BY <1>7, SessionAssumption
    <3>2. NewOutput(n, ids)
      BY <1>1, <1>2, <1>7, <2>1, <3>1, IdsNew
    <3>. QED
      BY <3>2 DEF NewOutput
  <2>3. PICK k \in Nat : k = Len(out) /\ DOMAIN out = 1..k /\ \A i \in 1..k : out[i] \in AnyOutcome
    BY <1>3
  <2>4. DOMAIN ids = 1..k /\ \A i \in 1..k : ids[i] = [out[i] EXCEPT !.id = CallId(out, i, streamed)]
    BY <2>1, <2>3 DEF WithIds
  <2>5. \A i \in 1..k : ids[i].kind = out[i].kind
    BY <2>3, <2>4 DEF AnyOutcome
  <2>6. Len(ids) = k
    BY <2>2, <2>4
  <2>7. Fresh(VisibleBlocks(ids), api)
    BY <1>3, <2>2, <2>3, <2>5, <2>6, ShownFresh
  <2>8. Result(api, model, out, streamed) = VisibleBlocks(ids)
    BY <1>7, <2>1 DEF Result, ChatResult, WithIds
  <2>. QED
    BY <1>2, <1>7, <2>7, <2>8
<1>8. CASE api = "anthropic"
  <2>1. Result(api, model, out, streamed) = shown
    BY <1>4, <1>8 DEF Result
  <2>. QED
    BY <1>2, <1>5, <1>8, <2>1
<1>9. api \in {"responses", "chat_completions", "anthropic"}
  BY DEF OutputKind
<1>. QED
  BY <1>6, <1>7, <1>8, <1>9

\* What the client keeps of it.
LEMMA KeptShaped ==
    ASSUME client \in Client, NEW blocks \in Seq(Block), NEW model, NEW backend,
           Fresh(blocks, backend), backend = "responses" => Whole(blocks, model)
    PROVE  Shaped(Kept(blocks), model, backend, client.keeps)
<1>1. client.keeps \in {"everything", "noReasoning", "noText"}
  BY DEF Client
<1>2. ASSUME NEW kinds PROVE Fresh(Without(blocks, kinds), backend)
  <2>1. \A b : IsIn(b, Without(blocks, kinds)) => IsIn(b, blocks)
    BY PickedBlocks
  <2>. QED
    BY <2>1 DEF Fresh
<1>3. CASE client.keeps = "everything"
  <2>1. Kept(blocks) = blocks
    BY <1>3 DEF Kept
  <2>. QED
    BY <1>3, <2>1 DEF Shaped
<1>4. CASE client.keeps = "noReasoning"
  <2>1. Kept(blocks) = Without(blocks, {"reasoning", "thinking", "carrier"})
    BY <1>4 DEF Kept
  <2>2. \A b : IsIn(b, Kept(blocks)) => b.kind \notin {"reasoning", "thinking", "carrier"}
    BY <2>1, PickedBlocks
  <2>. QED
    BY <1>2, <1>4, <2>1, <2>2 DEF Shaped, Opaque
<1>5. CASE client.keeps = "noText"
  <2>1. Kept(blocks) = Without(blocks, {"text"})
    BY <1>5 DEF Kept
  <2>. QED
    BY <1>2, <1>5, <2>1 DEF Shaped
<1>. QED
  BY <1>1, <1>3, <1>4, <1>5

\* The blocks of a conversation can be counted.
LEMMA PlacesFinite ==
    ASSUME NEW messages \in Seq(Message)
    PROVE  IsFiniteSet(Places(messages))
<1>. DEFINE Of(m) == {<<m, b>> : b \in DOMAIN messages[m].blocks}
            UpTo(k) == UNION {Of(m) : m \in 1..k}
<1>1. PICK n \in Nat : n = Len(messages) /\ DOMAIN messages = 1..n /\ \A m \in 1..n : messages[m] \in Message
  OBVIOUS
<1>2. ASSUME NEW m \in 1..n PROVE IsFiniteSet(Of(m))
  <2>1. messages[m].blocks \in Seq(Block)
    BY <1>1 DEF Message
  <2>2. PICK l \in Nat : DOMAIN messages[m].blocks = 1..l
    BY <2>1
  <2>3. IsFiniteSet({m} \X (1..l))
    <3>1. IsFiniteSet({m})
      BY FS_Singleton
    <3>2. 1 \in Int /\ l \in Int
      OBVIOUS
    <3>3. IsFiniteSet(1..l)
      BY <3>2, FS_Interval
    <3>. QED
      BY <3>1, <3>3, FS_Product
  <2>4. Of(m) \in SUBSET ({m} \X (1..l))
    BY <2>2
  <2>. HIDE DEF Of
  <2>. QED
    BY <2>3, <2>4, FS_Subset
<1>. HIDE DEF Of
<1>. DEFINE T == {k \in 0..n : IsFiniteSet(UpTo(k))}
<1>3. 0 \in T
  <2>1. UpTo(0) = {}
    OBVIOUS
  <2>. HIDE DEF UpTo
  <2>2. IsFiniteSet(UpTo(0))
    BY <2>1, FS_EmptySet
  <2>. QED
    BY <2>2
<1>4. ASSUME NEW k \in 0..(n - 1), k \in T PROVE k + 1 \in T
  <2>1. k + 1 \in 1..n /\ k + 1 \in 0..n
    OBVIOUS
  <2>2. UpTo(k + 1) = UpTo(k) \cup Of(k + 1)
    <3>1. 1..(k + 1) = (1..k) \cup {k + 1}
      OBVIOUS
    <3>. QED
      BY <3>1
  <2>3. IsFiniteSet(UpTo(k))
    BY <1>4
  <2>. HIDE DEF UpTo
  <2>4. IsFiniteSet(UpTo(k) \cup Of(k + 1))
    <3>1. IsFiniteSet(Of(k + 1))
      BY <1>2, <2>1
    <3>. QED
      BY <2>3, <3>1, FS_Union
  <2>5. IsFiniteSet(UpTo(k + 1))
    BY <2>2, <2>4
  <2>. QED
    BY <2>1, <2>5
<1>5. n \in T
  <2>1. n \in 0..n
    OBVIOUS
  <2>. HIDE DEF T
  <2>2. \A k \in 0..n : k \in T
    BY <1>3, <1>4, Induction
  <2>. QED
    BY <2>1, <2>2
<1>6. Places(messages) = UpTo(n)
  BY <1>1 DEF Places, Of
<1>. HIDE DEF UpTo
<1>. QED
  BY <1>5, <1>6

\* A mark that is not there cannot be taken away.
LEMMA StaysUnmarked ==
    ASSUME NEW x \in Block, x.mark = FALSE
    PROVE  [x EXCEPT !.mark = FALSE] = x
<1>1. CASE x \in SaidBlock
  BY <1>1 DEF SaidBlock
<1>2. CASE x \in CarrierBlock
  BY <1>2 DEF CarrierBlock
<1>. QED
  BY <1>1, <1>2 DEF Block

\* The last cacheable block is in the last message, when that is the user's.
LEMMA LastIsMarked ==
    ASSUME NEW messages \in Seq(Message), NEW n \in Nat \ {0}, n = Len(messages),
           messages[n].blocks # <<>>,
           \A b : IsIn(b, messages[n].blocks) => b.kind \in {"text", "tool_result"}
    PROVE  \E b : MarkTopLevel(messages) = MarkOne(messages, n, b)
<1>1. PICK k \in Nat \ {0} : k = Len(messages[n].blocks) /\ DOMAIN messages[n].blocks = 1..k
  <2>1. messages[n] \in Message
    OBVIOUS
  <2>2. messages[n].blocks \in Seq(Block)
    BY <2>1 DEF Message
  <2>3. PICK s \in Seq(Block) : s = messages[n].blocks /\ s # <<>>
    BY <2>2
  <2>4. Len(s) \in Nat \ {0} /\ DOMAIN s = 1..Len(s)
    BY <2>3
  <2>. QED
    BY <2>3, <2>4
<1>2. PICK cacheable : cacheable = {p \in Places(messages) :
                         At(messages, p).kind \in {"text", "tool_use", "tool_result"}}
  OBVIOUS
<1>3. PICK T : T = {p \in cacheable : \A q \in cacheable :
                    q[1] < p[1] \/ (q[1] = p[1] /\ q[2] <= p[2])}
  OBVIOUS
<1>4. \A p \in cacheable : /\ p = <<p[1], p[2]>> /\ p[1] \in 1..n
                           /\ p[2] \in DOMAIN messages[p[1]].blocks
  <2>1. DOMAIN messages = 1..n
    OBVIOUS
  <2>2. \A p \in Places(messages) : \E m \in 1..n : \E b \in DOMAIN messages[m].blocks : p = <<m, b>>
    BY <2>1 DEF Places
  <2>. QED
    BY <1>2, <2>2
<1>5. <<n, k>> \in T
  <2>1. <<n, k>> \in Places(messages)
    <3>1. n \in DOMAIN messages /\ k \in DOMAIN messages[n].blocks
      BY <1>1
    <3>. QED
      BY <3>1 DEF Places
  <2>2. At(messages, <<n, k>>).kind \in {"text", "tool_result"}
    <3>1. IsIn(messages[n].blocks[k], messages[n].blocks)
      BY <1>1 DEF IsIn
    <3>. QED
      BY <3>1 DEF At
  <2>3. <<n, k>> \in cacheable
    BY <1>2, <2>1, <2>2
  <2>4. \A q \in cacheable : q[1] < n \/ (q[1] = n /\ q[2] <= k)
    BY <1>1, <1>4
  <2>. QED
    BY <1>3, <2>3, <2>4
<1>6. PICK last : last = CHOOSE p \in cacheable : \A q \in cacheable :
                    q[1] < p[1] \/ (q[1] = p[1] /\ q[2] <= p[2])
  OBVIOUS
<1>7. last \in T
  BY <1>3, <1>5, <1>6
<1>8. last[1] = n
  <2>1. <<n, k>> \in cacheable /\ last \in cacheable
    BY <1>3, <1>5, <1>7
  <2>2. n < last[1] \/ n = last[1]
    BY <1>3, <1>7, <2>1
  <2>3. last[1] \in 1..n
    BY <1>4, <2>1
  <2>. QED
    BY <2>2, <2>3
<1>9. cacheable # {}
  BY <1>3, <1>5
<1>10. MarkTopLevel(messages) = [messages EXCEPT ![last[1]].blocks[last[2]].mark = TRUE]
  BY <1>2, <1>6, <1>9 DEF MarkTopLevel
<1>. QED
  BY <1>8, <1>10 DEF MarkOne

\* The user ends a conversation with something to say.
UserLast(messages) ==
    /\ messages # <<>> /\ messages[Len(messages)].role = "user"
    /\ messages[Len(messages)].blocks # <<>>
    /\ \A b : IsIn(b, messages[Len(messages)].blocks) => b.kind \in {"text", "tool_result"}

\* An answer nobody marked only gets marks on its texts, and only from a client that
\* marks answers.
LEMMA AnswersUnmarked ==
    ASSUME NEW messages \in Seq(Message), UserLast(messages),
           NEW m \in 1..Len(messages), messages[m].role = "assistant",
           \A b : IsIn(b, messages[m].blocks) => b.mark = FALSE
    PROVE  /\ \A x : IsIn(x, WithMarks(messages)[m].blocks) /\ x.mark => x.kind = "text"
           /\ client.marks # "answers" => WithMarks(messages)[m] = messages[m]
<1>. DEFINE wanted(role, blocks, b) ==
                \/ client.marks = "userTurns" /\ role = "user" /\ b = Len(blocks)
                \/ client.marks = "answers" /\ role = "assistant" /\ blocks[b].kind = "text"
            marked(role, blocks) ==
                [b \in DOMAIN blocks |-> [blocks[b] EXCEPT !.mark = wanted(role, blocks, b)]]
<1>1. PICK n \in Nat \ {0} : n = Len(messages) /\ DOMAIN messages = 1..n /\ m \in 1..n
  BY DEF UserLast
<1>2. PICK message \in Message : message = messages[m]
  BY <1>1
<1>3. PICK k \in Nat : /\ k = Len(message.blocks) /\ DOMAIN message.blocks = 1..k
                       /\ \A i \in 1..k : message.blocks[i] \in Block /\ message.blocks[i].mark = FALSE
  <2>1. message.blocks \in Seq(Block)
    BY DEF Message
  <2>2. \A i \in 1..Len(message.blocks) : IsIn(message.blocks[i], message.blocks)
    BY DEF IsIn
  <2>. QED
    BY <1>2, <2>1, <2>2
<1>4. ASSUME WithMarks(messages)[m] = messages[m]
      PROVE  /\ \A x : IsIn(x, WithMarks(messages)[m].blocks) /\ x.mark => x.kind = "text"
             /\ client.marks # "answers" => WithMarks(messages)[m] = messages[m]
  BY <1>4
<1>5. CASE client.marks = "topLevel"
  <2>1. PICK b : MarkTopLevel(messages) = MarkOne(messages, n, b)
    BY <1>1, LastIsMarked DEF UserLast
  <2>2. WithMarks(messages) = MarkOne(messages, n, b)
    BY <1>5, <2>1 DEF WithMarks
  <2>3. m # n
    BY <1>1 DEF UserLast
  <2>4. WithMarks(messages)[m] = messages[m]
    BY <1>1, <2>2, <2>3 DEF MarkOne
  <2>. QED
    BY <1>4, <2>4
<1>6. CASE client.marks # "topLevel"
  <2>1. WithMarks(messages)[m] = [message EXCEPT !.blocks = marked("assistant", message.blocks)]
    BY <1>1, <1>2, <1>6 DEF WithMarks
  <2>2. PICK blocks : blocks = marked("assistant", message.blocks)
    OBVIOUS
  <2>3. /\ blocks = [i \in 1..k |-> blocks[i]]
        /\ \A i \in 1..k : blocks[i] = [message.blocks[i] EXCEPT !.mark =
                              client.marks = "answers" /\ message.blocks[i].kind = "text"]
    BY <1>3, <2>2
  <2>4. WithMarks(messages)[m].blocks = blocks
    BY <2>1, <2>2 DEF Message
  <2>5. CASE client.marks # "answers"
    <3>1. \A i \in 1..k : blocks[i] = [message.blocks[i] EXCEPT !.mark = FALSE]
      BY <2>3, <2>5
    <3>2. \A i \in 1..k : blocks[i] = message.blocks[i]
      BY <1>3, <3>1, StaysUnmarked
    <3>3. blocks = message.blocks
      <4>1. message.blocks \in Seq(Block)
        BY DEF Message
      <4>2. message.blocks = [i \in 1..k |-> message.blocks[i]]
        BY <1>3, <4>1
      <4>. QED
        BY <2>3, <3>2, <4>2
    <3>4. [message EXCEPT !.blocks = message.blocks] = message
      BY DEF Message
    <3>5. WithMarks(messages)[m] = messages[m]
      BY <1>2, <2>1, <2>2, <3>3, <3>4
    <3>. QED
      BY <1>4, <3>5
  <2>6. CASE client.marks = "answers"
    <3>1. \A i \in 1..k : blocks[i] \in Block /\ (blocks[i].mark => blocks[i].kind = "text")
      <4>. SUFFICES ASSUME NEW i \in 1..k
                    PROVE  blocks[i] \in Block /\ (blocks[i].mark => blocks[i].kind = "text")
        OBVIOUS
      <4>1. PICK v \in BOOLEAN, x \in Block : v = (message.blocks[i].kind = "text") /\ x = message.blocks[i]
        BY <1>3
      <4>2. blocks[i] = [x EXCEPT !.mark = v]
        BY <2>3, <2>6, <4>1
      <4>3. PICK y : y = [x EXCEPT !.mark = v]
        OBVIOUS
      <4>4. y \in Block /\ SameBlock(y, x)
        BY <4>3, MarkedBlock
      <4>5. y.mark = v
        <5>1. CASE x \in SaidBlock
          BY <4>3, <5>1 DEF SaidBlock
        <5>2. CASE x \in CarrierBlock
          BY <4>3, <5>2 DEF CarrierBlock
        <5>. QED
          BY <5>1, <5>2 DEF Block
      <4>6. y.kind = x.kind
        BY <4>4 DEF SameBlock
      <4>. QED
        BY <4>1, <4>2, <4>3, <4>4, <4>5, <4>6
    <3>2. Len(blocks) = k
      BY <2>3, <3>1, MadeSeq
    <3>3. \A x : IsIn(x, blocks) /\ x.mark => x.kind = "text"
      BY <3>1, <3>2 DEF IsIn
    <3>. QED
      BY <2>4, <2>6, <3>3
  <2>. QED
    BY <2>5, <2>6
<1>. QED
  BY <1>5, <1>6

\* The shape of a conversation: a user says something, an answer is as the client
\* has it.
Shapes(messages, sayers) ==
    \A m \in 1..Len(messages) :
        /\ messages[m].role = "user" => messages[m].blocks # <<>>
        /\ messages[m].role = "assistant" =>
              Shaped(messages[m].blocks, sayers[m].model, sayers[m].backend, client.keeps)

\* None of the causes RejectionsHaveCauses lists.
NoCause(messages, sayers, backend, model) ==
    /\ \A m \in 1..Len(messages) : \A b : IsIn(b, messages[m].blocks) =>
          /\ b.kind \in Opaque =>
                /\ sayers[m].backend = backend /\ sayers[m].model = model
                /\ client.keeps # "noText" /\ client.marks # "answers"
          /\ b.kind = "tool_use" => b.id # NoId
    /\ ~(Cardinality(Marked(WithMarks(messages))) > MaxBreakpoints)

\* An answer can be taken back: nothing of it is opaque, or it is whole, unmarked and
\* from the model that is asked.
Replayable(messages, m, backend, model) ==
    \/ \A b : IsIn(b, messages[m].blocks) => b.kind \notin Opaque
    \/ /\ backend = "responses" /\ Whole(messages[m].blocks, model)
       /\ client.marks # "answers"
       /\ \A b : IsIn(b, messages[m].blocks) => b.kind # "thinking"

LEMMA AnswersReplayable ==
    ASSUME client \in Client, NEW messages \in Seq(Message), NEW sayers, Shapes(messages, sayers),
           NEW backend \in {"responses", "chat_completions"}, NEW model,
           NoCause(messages, sayers, backend, model),
           NEW m \in 1..Len(messages), messages[m].role = "assistant"
    PROVE  Replayable(messages, m, backend, model)
<1>1. PICK blocks, by : blocks = messages[m].blocks /\ by = sayers[m]
  OBVIOUS
<1>2. Shaped(blocks, by.model, by.backend, client.keeps)
  BY <1>1 DEF Shapes
<1>3. SUFFICES ASSUME NEW b, IsIn(b, blocks), b.kind \in Opaque
               PROVE  Replayable(messages, m, backend, model)
  BY <1>1 DEF Replayable
<1>4. /\ by.backend = backend /\ by.model = model
      /\ client.keeps # "noText" /\ client.marks # "answers"
  BY <1>1, <1>3 DEF NoCause
<1>5. client.keeps = "everything"
  BY <1>2, <1>3, <1>4 DEF Shaped, Client
<1>6. \A x : IsIn(x, blocks) => x.kind # "thinking"
  BY <1>2, <1>4 DEF Shaped, Fresh
<1>7. backend = "responses"
  BY <1>2, <1>3, <1>4 DEF Shaped, Fresh, Opaque
<1>8. Whole(blocks, model)
  BY <1>2, <1>4, <1>5, <1>7 DEF Shaped
<1>. QED
  BY <1>1, <1>4, <1>6, <1>7, <1>8 DEF Replayable

\* Without a cause, validation lets the request through.
LEMMA RequestValid ==
    ASSUME client \in Client, NEW messages, NEW sayers, GoodTalk(messages, sayers),
           Shapes(messages, sayers), UserLast(messages),
           NEW backend \in {"responses", "chat_completions"}, NEW model,
           NoCause(messages, sayers, backend, model)
    PROVE  ValidRequest(WithMarks(messages), backend)
<1>1. PICK marked : marked = WithMarks(messages)
  OBVIOUS
<1>2. messages \in Seq(Message)
  BY DEF GoodTalk
<1>3. PICK n \in Nat \ {0} : n = Len(messages) /\ DOMAIN messages = 1..n /\ \A m \in 1..n : messages[m] \in Message
  BY <1>2 DEF UserLast
<1>4. /\ marked \in Seq(Message) /\ Len(marked) = n /\ DOMAIN marked = 1..n
      /\ \A m \in 1..n : marked[m] \in Message /\ SameMessage(marked[m], messages[m])
  <2>1. MarksDiffer(marked, messages)
    BY <1>1, <1>2, MarksOnly
  <2>. QED
    BY <1>3, <2>1 DEF MarksDiffer
<1>5. ASSUME NEW m \in 1..n, NEW x, IsIn(x, marked[m].blocks)
      PROVE  ValidBlock(marked[m].role, x, backend)
  <2>1. marked[m].role = messages[m].role
    BY <1>4, <1>5 DEF SameMessage
  <2>2. PICK y : IsIn(y, messages[m].blocks) /\ SameBlock(x, y)
    BY <1>3, <1>4, <1>5, BlocksAgree
  <2>3. /\ x.kind = y.kind
        /\ x.kind # "carrier" => x.id = y.id
    BY <2>2 DEF SameBlock
  <2>4. Placed(m, messages[m], sayers[m]) /\ ResultsOf(messages[m].blocks, Previous(messages, m))
    BY <1>3 DEF GoodTalk
  <2>5. CASE messages[m].role = "user"
    <3>1. x.kind \in {"text", "tool_result"}
      BY <2>2, <2>3, <2>4, <2>5 DEF Placed
    <3>2. ASSUME x.kind = "tool_result" PROVE x.id # NoId
      <4>1. PICK c : IsIn(c, Previous(messages, m)) /\ c.kind = "tool_use" /\ c.id = y.id
        BY <2>2, <2>3, <2>4, <3>2 DEF ResultsOf
      <4>2. m # 1
        BY <4>1 DEF Previous, IsIn
      <4>3. m - 1 \in 1..n /\ Previous(messages, m) = messages[m - 1].blocks
        BY <4>2 DEF Previous
      <4>4. c.id # NoId
        BY <1>3, <4>1, <4>3 DEF NoCause
      <4>. QED
        BY <2>3, <3>2, <4>1, <4>4
    <3>. QED
      BY <2>1, <2>5, <3>1, <3>2 DEF ValidBlock
  <2>6. CASE messages[m].role = "assistant"
    <3>1. x.kind # "tool_result"
      BY <2>2, <2>3, <2>4, <2>6 DEF Placed
    <3>2. x.kind = "tool_use" => x.id # NoId
      BY <1>3, <2>2, <2>3 DEF NoCause
    <3>3. x.mark => x.kind = "text"
      <4>1. \A b : IsIn(b, messages[m].blocks) => b.mark = FALSE
        BY <1>3, <2>6 DEF Shapes, Shaped, Fresh
      <4>2. m \in 1..Len(messages) /\ UserLast(messages)
        BY <1>2, <1>3
      <4>3. \A z : IsIn(z, WithMarks(messages)[m].blocks) /\ z.mark => z.kind = "text"
        BY <1>2, <2>6, <4>1, <4>2, AnswersUnmarked
      <4>. QED
        BY <1>1, <1>5, <4>3
    <3>4. x.mark = TRUE \/ x.mark = FALSE
      <4>1. x \in Block
        <5>1. marked[m].blocks \in Seq(Block)
          BY <1>4 DEF Message
        <5>. QED
          BY <1>5, <5>1 DEF IsIn
      <4>. QED
        BY <4>1 DEF Block, SaidBlock, CarrierBlock
    <3>5. Replayable(messages, m, backend, model)
      BY <1>2, <1>3, <2>6, AnswersReplayable
    <3>6. /\ x.kind # "thinking"
          /\ x.kind \in {"reasoning", "carrier"} => backend = "responses"
      BY <2>2, <2>3, <3>5 DEF Replayable, Opaque
    <3>. QED
      BY <2>1, <2>6, <3>1, <3>2, <3>3, <3>4, <3>6 DEF ValidBlock
  <2>7. messages[m].role \in {"user", "assistant"}
    BY <1>3 DEF Message
  <2>. QED
    BY <2>5, <2>6, <2>7
<1>6. ASSUME NEW p \in Places(marked)
      PROVE  ValidBlock(marked[p[1]].role, At(marked, p), backend)
  <2>1. PICK m \in 1..n : \E b \in DOMAIN marked[m].blocks : p = <<m, b>>
    BY <1>4 DEF Places
  <2>2. PICK b \in DOMAIN marked[m].blocks : p = <<m, b>>
    BY <2>1
  <2>3. IsIn(marked[m].blocks[b], marked[m].blocks)
    <3>1. marked[m].blocks \in Seq(Block)
      BY <1>4 DEF Message
    <3>. QED
      BY <3>1 DEF IsIn
  <2>. QED
    BY <1>5, <2>2, <2>3 DEF At
<1>7. Last(marked).role # "assistant"
  <2>1. Last(marked) = marked[n]
    BY <1>4 DEF Last
  <2>2. marked[n].role = messages[n].role
    BY <1>4 DEF SameMessage
  <2>. QED
    BY <1>3, <2>1, <2>2 DEF UserLast
<1>8. Cardinality(Marked(marked)) <= MaxBreakpoints
  <2>1. IsFiniteSet(Places(marked))
    BY <1>4, PlacesFinite
  <2>2. Marked(marked) \in SUBSET Places(marked)
    BY DEF Marked
  <2>3. IsFiniteSet(Marked(marked))
    BY <2>1, <2>2, FS_Subset
  <2>4. Cardinality(Marked(marked)) \in Nat
    BY <2>3, FS_CardinalityType
  <2>5. ~(Cardinality(Marked(marked)) > MaxBreakpoints)
    BY <1>1 DEF NoCause
  <2>. QED
    BY <2>4, <2>5, ConversionAssumption
<1>. QED
  BY <1>1, <1>6, <1>7, <1>8 DEF ValidRequest

\* Without a cause, the items of an answer can be made.
LEMMA AssistantAccepted ==
    ASSUME NEW blocks \in Seq(Block), NEW model,
           \/ \A b : IsIn(b, blocks) => b.kind \notin Opaque
           \/ Whole(blocks, model)
    PROVE  AssistantItems(blocks, model) \in Seq(UpItem)
<1>1. CASE \A b : IsIn(b, blocks) => b.kind \notin Opaque
  <2>1. \A b : IsIn(b, blocks) => b.kind \notin {"carrier"}
    BY <1>1 DEF Opaque
  <2>2. Carriers(blocks) = <<>> /\ Visible(blocks) = blocks
    BY <2>1, PickedAllOrNone DEF Carriers, Visible
  <2>3. ~ \E b \in DOMAIN blocks : blocks[b].kind = "reasoning"
    <3>1. \A b \in DOMAIN blocks : IsIn(blocks[b], blocks)
      BY DEF IsIn
    <3>. QED
      BY <1>1, <3>1 DEF Opaque
  <2>4. AssistantItems(blocks, model) = Told("blocks", blocks)
    BY <2>2, <2>3 DEF AssistantItems
  <2>5. blocks \in Seq(SaidBlock)
    BY <2>1, SaidBlocks
  <2>. QED
    BY <2>4, <2>5, ToldItems
<1>2. CASE Whole(blocks, model)
  <2>1. PICK out \in Seq(Outcome) :
           Carriers(blocks) = <<Carrier(model, out)>> /\ Visible(blocks) = VisibleBlocks(out)
    BY <1>2 DEF Whole
  <2>2. PICK c : c = Carrier(model, out)
    OBVIOUS
  <2>3. PICK cs : cs = <<c>>
    OBVIOUS
  <2>4. AssistantItems(blocks, model) = Carried(out)
    <3>1. c.model = model /\ c.output = out
      BY <2>2 DEF Carrier
    <3>2. cs # <<>> /\ Len(cs) = 1 /\ cs[1] = c
      BY <2>3
    <3>. QED
      BY <2>1, <2>2, <2>3, <3>1, <3>2 DEF AssistantItems
  <2>5. PICK n \in Nat : n = Len(out) /\ DOMAIN out = 1..n /\ \A i \in 1..n : out[i] \in Outcome
    OBVIOUS
  <2>6. PICK s : s = Carried(out)
    OBVIOUS
  <2>7. s = [i \in 1..n |-> s[i]] /\ \A i \in 1..n : s[i] = Item("output", out[i].kind, out[i])
    BY <2>5, <2>6 DEF Carried
  <2>8. \A i \in 1..n : s[i] \in UpItem
    BY <2>5, <2>7, CarriedItem
  <2>9. s \in Seq(UpItem)
    BY <2>7, <2>8, MadeSeq
  <2>. QED
    BY <2>4, <2>6, <2>9
<1>. QED
  BY <1>1, <1>2

\* Without a cause, there is something to send.
LEMMA RequestAccepted ==
    ASSUME client \in Client, NEW messages, NEW sayers, GoodTalk(messages, sayers),
           Shapes(messages, sayers), UserLast(messages),
           NEW backend \in {"responses", "chat_completions"}, NEW model,
           NoCause(messages, sayers, backend, model)
    PROVE  Convert(WithMarks(messages), backend, model) # Null
<1>1. PICK marked : marked = WithMarks(messages)
  OBVIOUS
<1>2. messages \in Seq(Message)
  BY DEF GoodTalk
<1>3. PICK n \in Nat : n = Len(messages) /\ \A m \in 1..n : messages[m] \in Message
  BY <1>2
<1>4. /\ marked \in Seq(Message) /\ Len(marked) = n /\ DOMAIN marked = 1..n
      /\ \A m \in 1..n : marked[m] \in Message /\ SameMessage(marked[m], messages[m])
  <2>1. MarksDiffer(marked, messages)
    BY <1>1, <1>2, MarksOnly
  <2>. QED
    BY <1>3, <2>1 DEF MarksDiffer
<1>5. ValidRequest(marked, backend)
  BY <1>1, RequestValid
<1>6. \A m \in 1..n : Placed(m, marked[m], sayers[m])
  <2>. SUFFICES ASSUME NEW m \in 1..n PROVE Placed(m, marked[m], sayers[m])
    OBVIOUS
  <2>1. Placed(m, messages[m], sayers[m])
    BY <1>3 DEF GoodTalk
  <2>. QED
    BY <1>3, <1>4, <2>1, MarkedPlaced
<1>7. \A parts \in Seq(Seq(UpItem)) : FlattenSeq(parts) # Null
  <2>. SUFFICES ASSUME NEW parts \in Seq(Seq(UpItem)) PROVE FlattenSeq(parts) # Null
    OBVIOUS
  <2>1. FlattenSeq(parts) \in Seq(UpItem)
    BY FlattenType
  <2>. QED
    BY <2>1, RejectionAssumption
<1>8. CASE backend = "chat_completions"
  <2>1. Convert(marked, backend, model) = ChatMessages(marked)
    BY <1>5, <1>8 DEF Convert
  <2>2. PICK parts : /\ TellsAll(parts, marked, "chat_completions", model)
                     /\ ChatMessages(marked) = FlattenSeq(parts)
    BY <1>4, <1>5, <1>6, <1>8, ChatTells
  <2>3. parts \in Seq(Seq(UpItem))
    BY <2>2 DEF TellsAll
  <2>. QED
    BY <1>1, <1>7, <2>1, <2>2, <2>3
<1>9. CASE backend = "responses"
  <2>. DEFINE items(m) == IF marked[m].role = "assistant"
                          THEN AssistantItems(marked[m].blocks, model)
                          ELSE Told("user", marked[m].blocks)
  <2>1. Convert(marked, backend, model) = ResponsesItems(marked, model)
    BY <1>5, <1>9 DEF Convert
  <2>2. ASSUME NEW m \in 1..n PROVE items(m) \in Seq(UpItem)
    <3>1. PICK message \in Message : message = marked[m] /\ message.blocks \in Seq(Block)
      BY <1>4 DEF Message
    <3>2. message.role = messages[m].role
      BY <1>4, <3>1 DEF SameMessage
    <3>3. CASE message.role = "assistant"
      <4>1. Replayable(messages, m, backend, model)
        BY <1>2, <1>3, <3>2, <3>3, AnswersReplayable
      <4>2. CASE \A b : IsIn(b, messages[m].blocks) => b.kind \notin Opaque
        <5>1. \A b : IsIn(b, message.blocks) => b.kind \notin Opaque
          <6>. SUFFICES ASSUME NEW x, IsIn(x, message.blocks) PROVE x.kind \notin Opaque
            OBVIOUS
          <6>1. PICK y : IsIn(y, messages[m].blocks) /\ SameBlock(x, y)
            BY <1>3, <1>4, <3>1, BlocksAgree
          <6>. QED
            BY <4>2, <6>1 DEF SameBlock
        <5>2. AssistantItems(message.blocks, model) \in Seq(UpItem)
          BY <3>1, <5>1, AssistantAccepted
        <5>. QED
          BY <3>1, <3>3, <5>2
      <4>3. CASE Whole(messages[m].blocks, model) /\ client.marks # "answers"
        <5>1. \A b : IsIn(b, messages[m].blocks) => b.mark = FALSE
          BY <1>3, <3>2, <3>3 DEF Shapes, Shaped, Fresh
        <5>2. marked[m] = messages[m]
          BY <1>1, <1>2, <1>3, <3>2, <3>3, <4>3, <5>1, AnswersUnmarked
        <5>3. AssistantItems(message.blocks, model) \in Seq(UpItem)
          BY <3>1, <4>3, <5>2, AssistantAccepted
        <5>. QED
          BY <3>1, <3>3, <5>3
      <4>. QED
        BY <4>1, <4>2, <4>3 DEF Replayable
    <3>4. CASE message.role = "user"
      <4>1. \A b : IsIn(b, message.blocks) => b.kind # "carrier"
        BY <1>6, <3>1, <3>4 DEF Placed
      <4>2. message.blocks \in Seq(SaidBlock)
        BY <3>1, <4>1, SaidBlocks
      <4>3. Told("user", message.blocks) \in Seq(UpItem)
        BY <4>2, ToldItems
      <4>. QED
        BY <3>1, <3>4, <4>3
    <3>5. message.role \in {"user", "assistant"}
      BY DEF Message
    <3>. HIDE DEF items
    <3>. QED
      BY <3>3, <3>4, <3>5
  <2>3. PICK parts : parts = [m \in 1..n |-> items(m)]
    OBVIOUS
  <2>4. \A m \in 1..n : items(m) # Null
    <3>. HIDE DEF items
    <3>. QED
      BY <2>2, RejectionAssumption
  <2>5. ResponsesItems(marked, model) = FlattenSeq(parts)
    BY <1>4, <2>3, <2>4 DEF ResponsesItems
  <2>6. parts \in Seq(Seq(UpItem))
    <3>. HIDE DEF items
    <3>1. parts = [m \in 1..n |-> parts[m]] /\ \A m \in 1..n : parts[m] \in Seq(UpItem)
      BY <2>2, <2>3
    <3>. QED
      BY <3>1, PartsSeq
  <2>. HIDE DEF items
  <2>. QED
    BY <1>1, <1>7, <2>1, <2>5, <2>6
<1>. QED
  BY <1>8, <1>9

\* A prompt says something.
LEMMA PromptSays ==
    ASSUME history \in Seq(Message), NEW prompt \in Prompts
    PROVE  prompt # <<>>
<1>1. PICK n \in Nat : n = Len(history) + 1
  OBVIOUS
<1>2. PICK calls : calls = IF history = <<>> THEN <<>> ELSE Calls(Last(history).blocks)
  OBVIOUS
<1>3. calls \in Seq(Block)
  <2>1. history # <<>> => Last(history).blocks \in Seq(Block)
    <3>1. history # <<>> => Last(history) \in Message
      BY DEF Last
    <3>. QED
      BY <3>1 DEF Message
  <2>2. history # <<>> => Calls(Last(history).blocks) \in Seq(Block)
    BY <2>1, PickedBlocks DEF Calls
  <2>. QED
    BY <1>2, <2>2
<1>4. PICK k \in Nat : k = Len(calls)
  BY <1>3
<1>5. \/ prompt = <<TextAt(n, 1)>>
      \/ calls # <<>> /\ prompt = [i \in 1..k |-> ResultAt(n, i, calls[i])]
      \/ prompt = Append([i \in 1..k |-> ResultAt(n, i, calls[k + 1 - i])], TextAt(n, k + 1))
      \/ prompt = <<TextAt(n, 1)>> \o [i \in 1..k |-> ResultAt(n, i + 1, calls[i])]
  BY <1>1, <1>2, <1>4 DEF Prompts, TextAt, ResultAt
<1>6. CASE prompt = <<TextAt(n, 1)>>
  BY <1>6
<1>7. CASE calls # <<>> /\ prompt = [i \in 1..k |-> ResultAt(n, i, calls[i])]
  <2>1. k # 0
    BY <1>3, <1>4, <1>7
  <2>2. DOMAIN prompt = 1..k /\ 1 \in 1..k
    BY <1>7, <2>1
  <2>. QED
    BY <2>2
<1>8. CASE prompt = Append([i \in 1..k |-> ResultAt(n, i, calls[k + 1 - i])], TextAt(n, k + 1))
  <2>1. PICK s : s = [i \in 1..k |-> ResultAt(n, i, calls[k + 1 - i])]
    OBVIOUS
  <2>2. s \in Seq({s[i] : i \in 1..k})
    <3>1. s = [i \in 1..k |-> s[i]] /\ \A i \in 1..k : s[i] \in {s[j] : j \in 1..k}
      BY <2>1
    <3>. QED
      BY <3>1, MadeSeq
  <2>3. PICK x : x = TextAt(n, k + 1)
    OBVIOUS
  <2>4. Append(s, x) # <<>>
    BY <2>2
  <2>. QED
    BY <1>8, <2>1, <2>3, <2>4
<1>9. CASE prompt = <<TextAt(n, 1)>> \o [i \in 1..k |-> ResultAt(n, i + 1, calls[i])]
  <2>1. PICK s : s = [i \in 1..k |-> ResultAt(n, i + 1, calls[i])]
    OBVIOUS
  <2>2. PICK x : x = TextAt(n, 1)
    OBVIOUS
  <2>3. PICK S : S = {s[i] : i \in 1..k} \cup {x}
    OBVIOUS
  <2>4. s \in Seq(S) /\ <<x>> \in Seq(S) /\ Len(<<x>>) = 1
    <3>1. s = [i \in 1..k |-> s[i]] /\ \A i \in 1..k : s[i] \in S
      BY <2>1, <2>3
    <3>2. s \in Seq(S)
      BY <3>1, MadeSeq
    <3>. QED
      BY <2>3, <3>2
  <2>5. Len(<<x>> \o s) = 1 + Len(s) /\ Len(s) \in Nat
    BY <2>4
  <2>6. <<x>> \o s # <<>>
    BY <2>5
  <2>. QED
    BY <1>9, <2>1, <2>2, <2>6
<1>. QED
  BY <1>5, <1>6, <1>7, <1>8, <1>9

\* A message is added to a conversation that has its shape.
LEMMA ShapesGrow ==
    ASSUME NEW messages, NEW sayers, GoodTalk(messages, sayers), Shapes(messages, sayers),
           NEW message \in Message, NEW by,
           message.role = "user" => message.blocks # <<>>,
           message.role = "assistant" =>
              Shaped(message.blocks, by.model, by.backend, client.keeps)
    PROVE  Shapes(Append(messages, message), Append(sayers, by))
<1>1. PICK n \in Nat : n = Len(messages) /\ n = Len(sayers)
  BY DEF GoodTalk
<1>2. sayers \in Seq(Sayer \cup {by})
  BY DEF GoodTalk
<1>3. PICK h : h = Append(messages, message)
  OBVIOUS
<1>4. PICK o : o = Append(sayers, by)
  OBVIOUS
<1>5. Len(h) = n + 1 /\ h[n + 1] = message /\ \A m \in 1..n : h[m] = messages[m]
  BY <1>1, <1>3 DEF GoodTalk
<1>6. o[n + 1] = by /\ \A m \in 1..n : o[m] = sayers[m]
  BY <1>1, <1>2, <1>4
<1>7. ASSUME NEW m \in 1..(n + 1)
      PROVE  /\ h[m].role = "user" => h[m].blocks # <<>>
             /\ h[m].role = "assistant" =>
                   Shaped(h[m].blocks, o[m].model, o[m].backend, client.keeps)
  <2>1. CASE m = n + 1
    BY <1>5, <1>6, <2>1
  <2>2. CASE m \in 1..n
    BY <1>1, <1>5, <1>6, <2>2 DEF Shapes
  <2>. QED
    BY <2>1, <2>2
<1>. QED
  BY <1>3, <1>4, <1>5, <1>7 DEF Shapes

\* The strengthening: every answer has its shape, and a conversation that was rejected
\* ends with the user's message and is one nothing can be sent of.
RejectInv ==
    /\ Shapes(history, outputs)
    /\ stage = "rejected" =>
          /\ UserLast(history)
          /\ Convert(WithMarks(history), Backend(deployment, requested),
                     MapModel(deployment, requested)) = Null

LEMMA SubmitRejects ==
    ASSUME RoutedInv, TalkInv, RejectInv, NEW prompt \in Prompts, Submit(prompt)
    PROVE  RejectInv'
<1>1. PICK message : message = [role |-> "user", blocks |-> prompt]
  OBVIOUS
<1>2. PICK messages, sayers : messages = Append(history, message) /\ sayers = Append(outputs, Null)
  OBVIOUS
<1>3. /\ history' = messages /\ outputs' = sayers
      /\ UNCHANGED <<deployment, requested, client>>
  BY <1>1, <1>2 DEF Submit, pagesVars
<1>4. stage' = "rejected" =>
         Convert(WithMarks(messages), Backend(deployment, requested),
                 MapModel(deployment, requested)) = Null
  BY <1>1, <1>2 DEF Submit
<1>5. PICK h, o : h = history /\ o = outputs
  OBVIOUS
<1>6. GoodTalk(h, o) /\ Shapes(h, o) /\ h \in Seq(Message) /\ Len(h) \in Nat
  BY <1>5 DEF TalkInv, RejectInv, GoodTalk
<1>7. GoodPrompt(Len(h) + 1, prompt, Before)
  BY <1>5, <1>6, PromptGood
<1>8. prompt # <<>>
  BY <1>5, <1>6, PromptSays
<1>9. message \in Message /\ message.role = "user" /\ message.blocks = prompt
  BY <1>1, <1>7 DEF GoodPrompt, Message
<1>10. Shapes(messages, sayers)
  <2>1. PICK by : by = Null
    OBVIOUS
  <2>2. Shapes(Append(h, message), Append(o, by))
    BY <1>6, <1>8, <1>9, ShapesGrow
  <2>. QED
    BY <1>2, <1>5, <2>1, <2>2
<1>11. UserLast(messages)
  <2>1. messages = Append(h, message)
    BY <1>2, <1>5
  <2>2. Len(messages) = Len(h) + 1 /\ messages[Len(h) + 1] = message /\ messages # <<>>
    BY <1>6, <1>9, <2>1
  <2>3. \A b : IsIn(b, prompt) => b.kind \in {"text", "tool_result"}
    BY <1>7 DEF GoodPrompt
  <2>. QED
    BY <1>8, <1>9, <2>2, <2>3 DEF UserLast
<1>12. Shapes(history, outputs)'
  BY <1>3, <1>10 DEF Shapes
<1>13. WithMarks(history)' = WithMarks(messages)
  BY <1>3 DEF WithMarks
<1>14. UserLast(history)'
  BY <1>3, <1>11 DEF UserLast
<1>. QED
  BY <1>3, <1>4, <1>12, <1>13, <1>14 DEF RejectInv

LEMMA AnswerShapes ==
    ASSUME RoutedInv, TalkInv, RejectInv, AnyAnswer
    PROVE  RejectInv'
<1>1. PICK api, model : api = sent.backend /\ model = sent.model
  OBVIOUS
<1>2. api \in Api /\ model \in Name
  <2>1. PICK d, name : d = sent.under /\ name = requested
    OBVIOUS
  <2>2. d \in Deployment /\ name \in Name
    BY <2>1, DeploymentFacts DEF AnyAnswer, RoutedInv
  <2>3. api = Backend(d, name) /\ model = UpstreamModel(d, name)
    BY <1>1, <2>1 DEF AnyAnswer, RoutedInv, TalkInv
  <2>. QED
    BY <2>2, <2>3, BackendType, UpstreamName DEF Api, OutputKind
<1>3. PICK kinds \in Outputs[api] : \E named \in BOOLEAN, streamed \in BOOLEAN : Answer(kinds, named, streamed)
  BY <1>1 DEF AnyAnswer
<1>4. PICK named \in BOOLEAN, streamed \in BOOLEAN : Answer(kinds, named, streamed)
  BY <1>3
<1>5. PICK h, o : h = history /\ o = outputs
  OBVIOUS
<1>6. GoodTalk(h, o) /\ Shapes(h, o) /\ Len(h) \in Nat
  BY <1>5 DEF TalkInv, RejectInv, GoodTalk
<1>7. PICK n \in Nat : n = Len(h) + 1
  BY <1>6
<1>8. PICK shown : shown = Result(api, model, Uttered(n, kinds, named), streamed)
  OBVIOUS
<1>9. PICK blocks : blocks = Kept(shown)
  OBVIOUS
<1>10. GoodAnswer(n, shown, model)
  BY <1>2, <1>8, ResultGood DEF Api
<1>11. client \in Client
  BY DEF TalkInv
<1>12. GoodAnswer(n, blocks, model)
  BY <1>9, <1>10, <1>11, KeptGood
<1>13. Shaped(blocks, model, api, client.keeps)
  <2>1. Fresh(shown, api) /\ (api = "responses" => Whole(shown, model))
    BY <1>2, <1>8, ResultShaped DEF Api
  <2>2. shown \in Seq(Block)
    BY <1>10 DEF GoodAnswer
  <2>. QED
    BY <1>9, <1>11, <2>1, <2>2, KeptShaped
<1>14. PICK message, by : /\ message = [role |-> "assistant", blocks |-> blocks]
                          /\ by = [model |-> model, backend |-> api]
  OBVIOUS
<1>15. /\ history' = Append(h, message) /\ outputs' = Append(o, by)
       /\ stage' = "composing" /\ client' = client
  BY <1>1, <1>4, <1>5, <1>7, <1>8, <1>9, <1>14 DEF Answer, Uttered
<1>16. message \in Message
  BY <1>2, <1>12, <1>14, AnswerMessage
<1>17. /\ message.role = "assistant" /\ message.blocks = blocks
       /\ by.model = model /\ by.backend = api
  BY <1>14
<1>18. Shapes(Append(h, message), Append(o, by))
  BY <1>6, <1>13, <1>16, <1>17, ShapesGrow
<1>19. Shapes(history, outputs)'
  BY <1>15, <1>18 DEF Shapes
<1>. QED
  BY <1>15, <1>19 DEF RejectInv

LEMMA RejectStep ==
    ASSUME RoutedInv, TalkInv, RejectInv, [SessionNext]_sessionVars
    PROVE  RejectInv'
<1>1. CASE AnyAnswer
  BY <1>1, AnswerShapes
<1>2. ASSUME NEW prompt \in Prompts, Submit(prompt) PROVE RejectInv'
  BY <1>2, SubmitRejects
<1>3. ASSUME UNCHANGED <<client, history, outputs>>, stage' # "rejected" PROVE RejectInv'
  BY <1>3 DEF RejectInv, Shapes
<1>4. CASE Browse
  BY <1>3, <1>4 DEF Browse, talkVars
<1>5. CASE Redeploy
  BY <1>3, <1>5 DEF Redeploy
<1>6. ASSUME NEW name \in Name, Choose(name) PROVE RejectInv'
  BY <1>3, <1>6 DEF Choose
<1>7. CASE UNCHANGED sessionVars
  <2>1. UNCHANGED <<client, history, outputs, stage, deployment, requested>>
    BY <1>7 DEF sessionVars, talkVars, pagesVars
  <2>2. WithMarks(history)' = WithMarks(history)
    BY <2>1 DEF WithMarks
  <2>3. Shapes(history, outputs)'
    BY <2>1 DEF RejectInv, Shapes
  <2>4. UserLast(history) => UserLast(history)'
    BY <2>1 DEF UserLast
  <2>. QED
    BY <2>1, <2>2, <2>3, <2>4 DEF RejectInv
<1>. QED
  BY <1>1, <1>2, <1>4, <1>5, <1>6, <1>7 DEF SessionNext

LEMMA SessionRejects == SessionSpec => []RejectInv
<1>1. ASSUME SessionInit PROVE RejectInv
  <2>1. history = <<>> /\ stage = "choosing" /\ Len(<<>>) = 0
    BY <1>1 DEF SessionInit
  <2>. QED
    BY <2>1 DEF RejectInv, Shapes
<1>. QED
  BY <1>1, RejectStep, SessionTalks, SessionRouted, PTL DEF SessionSpec

\* A conversation only stops for one of the causes the documentation names or the
\* property lists: never because of a restart, of settings that lead to the same model,
\* or of what the client dropped of the reasoning.
THEOREM RejectionsExplained == SessionSpec => []RejectionsHaveCauses
<1>1. ASSUME RoutedInv, TalkInv, RejectInv PROVE RejectionsHaveCauses
  <2>1. PICK h, o, d, name, backend, model :
           /\ h = history /\ o = outputs /\ d = deployment /\ name = requested
           /\ backend = Backend(d, name) /\ model = MapModel(d, name)
    OBVIOUS
  <2>2. SUFFICES ASSUME stage = "rejected",
                        ~ \E p \in Places(h) :
                             \/ /\ At(h, p).kind \in Opaque
                                /\ \/ o[p[1]].backend # backend
                                   \/ o[p[1]].model # model
                                   \/ client.keeps = "noText"
                                   \/ client.marks = "answers"
                             \/ At(h, p).kind = "tool_use" /\ At(h, p).id = NoId,
                        ~(Cardinality(Marked(WithMarks(h))) > MaxBreakpoints)
                 PROVE  FALSE
    BY <2>1 DEF RejectionsHaveCauses, Opaque
  <2>3. /\ GoodTalk(h, o) /\ Shapes(h, o) /\ UserLast(h) /\ client \in Client
        /\ Convert(WithMarks(h), backend, model) = Null
    BY <1>1, <2>1, <2>2 DEF TalkInv, RejectInv
  <2>4. h \in Seq(Message) /\ d \in Deployment
    BY <1>1, <2>1, <2>3, DeploymentFacts DEF GoodTalk, RoutedInv, PagesInv
  <2>5. ASSUME NEW m \in 1..Len(h), NEW b, IsIn(b, h[m].blocks)
        PROVE  /\ b.kind \in Opaque =>
                     /\ o[m].backend = backend /\ o[m].model = model
                     /\ client.keeps # "noText" /\ client.marks # "answers"
               /\ b.kind = "tool_use" => b.id # NoId
    <3>1. h[m].blocks \in Seq(Block)
      <4>1. h[m] \in Message
        BY <2>4
      <4>. QED
        BY <4>1 DEF Message
    <3>2. PICK i \in DOMAIN h[m].blocks : h[m].blocks[i] = b
      BY <2>5, <3>1 DEF IsIn
    <3>3. m \in DOMAIN h
      BY <2>4
    <3>4. PICK p : p = <<m, i>>
      OBVIOUS
    <3>5. p \in Places(h) /\ p[1] = m /\ At(h, p) = b
      BY <3>2, <3>3, <3>4 DEF Places, At
    <3>. QED
      BY <2>2, <3>5
  <2>6. NoCause(h, o, backend, model)
    BY <2>2, <2>5 DEF NoCause
  <2>7. backend \in {"anthropic", "responses", "chat_completions"}
    BY <2>1, <2>4, BackendType
  <2>8. CASE backend \in {"responses", "chat_completions"}
    BY <2>3, <2>6, <2>8, RequestAccepted
  <2>9. CASE backend = "anthropic"
    <3>1. PICK marked : marked = WithMarks(h)
      OBVIOUS
    <3>2. PICK n \in Nat : n = Len(marked) /\ DOMAIN marked = 1..n /\ \A m \in 1..n : marked[m] \in Message
      <4>1. MarksDiffer(marked, h)
        BY <2>4, <3>1, MarksOnly
      <4>. QED
        BY <4>1 DEF MarksDiffer
    <3>3. PICK parts : parts = [m \in 1..n |-> marked[m].blocks]
      OBVIOUS
    <3>4. parts \in Seq(Seq(Block))
      <4>1. parts = [m \in 1..n |-> parts[m]] /\ \A m \in 1..n : parts[m] \in Seq(Block)
        BY <3>2, <3>3 DEF Message
      <4>. QED
        BY <4>1, PartsSeq
    <3>5. Convert(marked, backend, model) = FlattenSeq(parts)
      BY <2>9, <3>2, <3>3 DEF Convert
    <3>6. FlattenSeq(parts) \in Seq(Block)
      BY <3>4, FlattenType
    <3>. QED
      BY <2>3, <3>1, <3>5, <3>6, RejectionAssumption
  <2>. QED
    BY <2>7, <2>8, <2>9
<1>. QED
  BY <1>1, SessionRejects, SessionTalks, SessionRouted, PTL
================================================================================
