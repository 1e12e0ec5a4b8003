------------------------------ MODULE Discovery ------------------------------
(***************************************************************************)
(* The models offered for a conversation (models.js discoverModels, app.js *)
(* loadModels): the providers are asked for their models, a few at a time, *)
(* and the list replaces the one offered when all have answered.  Another  *)
(* search may begin meanwhile, the providers change, or the page turn to   *)
(* another conversation, which ends the searches under way.                *)
(***************************************************************************)
EXTENDS Integers, FiniteSets

CONSTANTS
  None,
  MaxProviders,
  Width,        \* providers asked at a time (4)
  MaxSearches   \* bound of the searches, and of the changes of the providers

\* What an instance must satisfy.
DiscoveryAssumption == {MaxProviders, MaxSearches} \subseteq Nat /\ Width \in Nat \ {0}

VARIABLES
  providers, \* state.settings.providers
  searches,  \* the searches under way
  offered,   \* state.models: the providers whose models are listed, and were known
  sought

vars == <<providers, searches, offered, sought>>

Providers == 1..MaxProviders
Searches == 1..MaxSearches
Search == [known : SUBSET Providers,     \* the providers when it began
           asked : SUBSET Providers,     \* those that have not answered
           listed : SUBSET Providers,    \* those whose choices are there
           fresh : BOOLEAN]              \* state.epoch is the one it began in

TypeOK ==
  /\ providers \subseteq Providers /\ sought \in 0..MaxSearches
  /\ searches \in [Searches -> Search \cup {None}]
  /\ offered \in [known : SUBSET Providers, listed : SUBSET Providers]

Init ==
  /\ providers \in SUBSET Providers /\ sought = 0
  /\ searches = [s \in Searches |-> None]
  /\ offered = [known |-> {}, listed |-> {}]

\* The next n of the providers in ps, in their order.
Nearest(ps, n) == {p \in ps : Cardinality({q \in ps : q < p}) < n}

\* The settings were read again.
Change ==
  /\ \E ps \in SUBSET Providers : ps # providers /\ providers' = ps
  /\ sought < MaxSearches
  /\ UNCHANGED <<searches, offered, sought>>

\* A search begins with the providers known now.
LoadModels ==
  /\ sought < MaxSearches /\ sought' = sought + 1
  /\ IF providers = {} THEN offered' = [known |-> {}, listed |-> {}] /\ UNCHANGED searches
     ELSE /\ searches' = [searches EXCEPT ![sought'] =
               [known |-> providers, asked |-> Nearest(providers, Width), listed |-> {}, fresh |-> TRUE]]
          /\ UNCHANGED offered
  /\ UNCHANGED providers

\* Another conversation or device: what a search finds is of no use any more.
Invalidate ==
  /\ \E s \in Searches : searches[s] # None /\ searches[s].fresh
  /\ searches' = [s \in Searches |-> IF searches[s] = None THEN None
                                     ELSE [searches[s] EXCEPT !.fresh = FALSE]]
  /\ UNCHANGED <<providers, offered, sought>>

\* A provider has answered, or failed and is listed with its own model: the next is asked.
\* The last answer completes the list, which is offered if the search is still of use.
LoadNext(s, p) ==
  LET search == searches[s]
      listed == search.listed \cup {p}
      open == search.known \ (search.asked \cup listed)
      asked == (search.asked \ {p}) \cup (IF search.fresh THEN Nearest(open, 1) ELSE {})
  IN  /\ search # None /\ p \in search.asked
      /\ IF asked # {}
         THEN /\ searches' = [searches EXCEPT ![s].asked = asked, ![s].listed = listed]
              /\ UNCHANGED offered
         ELSE /\ searches' = [searches EXCEPT ![s] = None]
              /\ offered' = IF search.fresh THEN [known |-> search.known, listed |-> listed]
                            ELSE offered
      /\ UNCHANGED <<providers, sought>>

Next ==
  \/ Change \/ LoadModels \/ Invalidate
  \/ \E s \in Searches, p \in Providers : LoadNext(s, p)

Spec == Init /\ [][Next]_vars

\* Providers answer, or the call to them times out.
Fairness == \A s \in Searches : WF_vars(\E p \in Providers : LoadNext(s, p))

\* A list that is offered has the models of every provider that was known when it was asked
\* for, also when other searches ran beside it or were cut short, and a search never asks
\* more than its share of the bridge's calls (models.js 18-50, app.js 134-148).
ListWhole ==
  /\ offered.listed = offered.known
  /\ \A s \in Searches : searches[s] # None => Cardinality(searches[s].asked) \in 1..Width

\* Every search ends.
ComesToRest == <>[](\A s \in Searches : searches[s] = None)
=============================================================================
