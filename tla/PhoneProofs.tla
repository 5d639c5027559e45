----------------------------- MODULE PhoneProofs -----------------------------
(***************************************************************************)
(* Theorems about what the mobile application keeps on the phone:          *)
(*   - its session (PhoneSession), for any families, organisations,        *)
(*     requests at a time and bound on the rotations;                      *)
(*   - its demo (DemoApi), for any employees, codes, calls at a time and   *)
(*     bounds on calls and days.                                           *)
(***************************************************************************)
EXTENDS PhoneSession, DemoApi, SequenceTheorems, TLAPS

-----------------------------------------------------------------------------
(* The session of the phone.                                                *)

\* A pair of an open family, and the one that family takes.
Issued(p) == family[p.family] # Idle /\ p.n <= family[p.family].n
Newest(p) == family[p.family] # Idle /\ p.n = family[p.family].n

\* The phone holds p where it may still save, send or show it.
Keeps(p) ==
  \/ stored = p
  \/ \E c \in Calls : request[c] # Idle /\ request[c].pair = p
  \/ renewal # Idle /\ p \in {renewal.pair, renewal.answer}
  \/ restore # Idle /\ p \in {restore.pair, restore.answer}

GivenPair(c) == request[c] # Idle /\ request[c].answer \in Pair

\* Renewals and requests come after the restore.
PhasesInOrder ==
  /\ held \in {NoPair, stored} /\ shown \in {NoPair, stored}
  /\ restore # Idle => ~ready
  /\ ~ready => held = NoPair /\ renewal = Idle /\ \A c \in Calls : request[c] = Idle

RequestsMakeSense ==
  \A c \in Calls : request[c] # Idle =>
    /\ IF request[c].kind = "login"
       THEN ~request[c].again /\ request[c].at \in {"sent", "answered"}
       ELSE /\ request[c].pair # NoPair
            /\ request[c].pair = Demo /\ ~request[c].again => request[c].answer # Refusal
    /\ request[c].kind = "switch" => request[c].org \in Orgs
    /\ request[c].answer \in Pair => request[c].at = "answered"

OneSwitch ==
  \A c, d \in Calls : /\ request[c] # Idle /\ request[c].kind = "switch"
                      /\ request[d] # Idle /\ request[d].kind = "switch"
                      => c = d

KeptAreIssued == \A p \in Pair : Keeps(p) => Issued(p)

\* What a sign-in or a switch was answered is newer than all the phone keeps.
HandedAreNews ==
  \A c \in Calls : GivenPair(c) =>
    /\ Newest(request[c].answer)
    /\ \/ request[c].kind = "login" /\ request[c].answer.n = 0
       \/ request[c].kind = "switch"
    /\ \A p \in Pair : Keeps(p) /\ p.family = request[c].answer.family
                         => p.n < request[c].answer.n
    /\ \A d \in Calls : GivenPair(d) /\ request[d].answer.family = request[c].answer.family
                        => c = d

\* Every rotation of f was heard, and none of the last was a switch.
Followed(f) == f \notin unheard \cup switched

\* A refresh under way: with the pair its family takes, or with its successor.
RefreshIsNewest(r) ==
  r # Idle =>
    /\ r.answer = Idle /\ Followed(r.pair.family) => Newest(r.pair)
    /\ r.answer \in Pair /\ Followed(r.answer.family) => Newest(r.answer)
Succeeded(r, f) == r # Idle /\ r.answer \in Pair /\ r.answer.family = f
StoredIsNewest ==
  stored \in Pair /\ Followed(stored.family) =>
    \/ Newest(stored)
    \/ Succeeded(renewal, stored.family) \/ Succeeded(restore, stored.family)

SessionInv ==
  /\ TypeOK
  /\ PhasesInOrder /\ RequestsMakeSense /\ OneSwitch
  /\ KeptAreIssued /\ HandedAreNews
  /\ RefreshIsNewest(renewal) /\ RefreshIsNewest(restore) /\ StoredIsNewest

-----------------------------------------------------------------------------
LEMMA RequestFields ==
  ASSUME TypeOK, NEW c \in Calls, request[c] # Idle
  PROVE  /\ request[c] \in Request
         /\ request[c].kind \in Kinds /\ request[c].pair \in Tokens
         /\ request[c].again \in BOOLEAN
         /\ request[c].answer \in Answers \cup {Idle}
         /\ request[c].at \in {"sent", "answered", "waiting", "refused"}
BY DEF TypeOK, Request

LEMMA RefreshFields ==
  ASSUME TypeOK, NEW r \in {renewal, restore}, r # Idle
  PROVE  r \in Refresh /\ r.pair \in Pair /\ r.answer \in Answers \cup {Idle}
BY DEF TypeOK, Refresh

LEMMA PairFields ==
  ASSUME NEW p \in Pair
  PROVE  p.family \in Families /\ p.n \in 0..MaxRotations /\ p.org \in Orgs
BY DEF Pair

LEMMA RowFields ==
  ASSUME TypeOK, NEW f \in Families, family[f] # Idle
  PROVE  /\ family[f] \in Row /\ family[f].n \in 0..MaxRotations
         /\ family[f].live \in BOOLEAN /\ family[f].org \in Orgs
BY DEF TypeOK, Row

\* The rows keep their rotations: one may be ended.
RowsStay ==
  /\ family' \in [Families -> Row \cup {Idle}]
  /\ \A f \in Families : /\ family'[f] = Idle <=> family[f] = Idle
                         /\ family[f] # Idle => family'[f].n = family[f].n
\* Family f gets its rotation n.
Rotates(f, n) ==
  /\ family' \in [Families -> Row \cup {Idle}]
  /\ f \in Families /\ family'[f] # Idle /\ family'[f].n = n /\ n \in 0..MaxRotations
  /\ \A g \in Families \ {f} : family'[g] = family[g]

LEMMA HandedOut ==
  ASSUME TypeOK, NEW f \in Families, NEW n \in 0..MaxRotations, NEW o \in Orgs,
         family' = Handed(f, n, o).family
  PROVE  /\ Rotates(f, n) /\ family'[f].live
         /\ Handed(f, n, o).answer \in Pair
         /\ Handed(f, n, o).answer.family = f /\ Handed(f, n, o).answer.n = n
<1>1. [n |-> n, org |-> o, live |-> TRUE] \in Row BY DEF Row
<1>2. [n |-> n, org |-> o, live |-> TRUE] # Idle BY <1>1, MarksAreNoValues
<1>3. [family |-> f, n |-> n, org |-> o] \in Pair BY DEF Pair
<1> QED BY <1>1, <1>2, <1>3 DEF Handed, TypeOK, Rotates

LEMMA EndedRow ==
  ASSUME TypeOK, NEW f \in Families, family[f] # Idle, NEW a,
         family' = Ended(f, a).family
  PROVE  /\ RowsStay /\ Ended(f, a).answer = a
         /\ \A g \in Families \ {f} : family'[g] = family[g]
<1>1. family[f] \in Row BY RowFields
<1>2. /\ [family[f] EXCEPT !.live = FALSE] \in Row
      /\ [family[f] EXCEPT !.live = FALSE].n = family[f].n
  BY <1>1 DEF Row
<1>3. [family[f] EXCEPT !.live = FALSE] # Idle BY <1>2, MarksAreNoValues
<1> QED BY <1>2, <1>3 DEF Ended, TypeOK, RowsStay

LEMMA RowsUnchanged ==
  ASSUME TypeOK, family' = family
  PROVE  RowsStay
BY DEF TypeOK, RowsStay

-----------------------------------------------------------------------------
(* What serving a call does to the rows, and what it answers. *)

LEMMA LoginServed ==
  ASSUME TypeOK, NEW out \in ServeLogin, family' = out.family
  PROVE  \E f \in Families :
           /\ family[f] = Idle /\ Rotates(f, 0)
           /\ out.answer \in Pair /\ out.answer.family = f /\ out.answer.n = 0
<1>1. PICK f \in Families, o \in Orgs : ~Opened(f) /\ out = Handed(f, 0, o)
  BY DEF ServeLogin
<1>2. 0 \in 0..MaxRotations BY RotationsAreBounded
<1> QED BY <1>1, <1>2, HandedOut DEF Opened

LEMMA RotationServed ==
  ASSUME TypeOK, NEW f \in Families, family[f] # Idle, NEW o \in Orgs,
         NEW out \in Rotated(f, o), family' = out.family
  PROVE  /\ Rotates(f, family[f].n + 1) /\ family'[f].live /\ family' # family
         /\ out.answer \in Pair /\ out.answer.family = f /\ out.answer.n = family[f].n + 1
<1>1. CanRotate(f) /\ out = Handed(f, family[f].n + 1, o)
  BY DEF Rotated
<1>2. family[f].n \in 0..MaxRotations BY RowFields
<1>3. family[f].n + 1 \in 0..MaxRotations
  BY <1>1, <1>2, RotationsAreBounded DEF CanRotate
<1>4. family[f].n + 1 # family[f].n BY <1>2
<1> QED BY <1>1, <1>3, <1>4, HandedOut DEF Rotates

LEMMA RefreshServed ==
  ASSUME TypeOK, NEW p \in Pair, Issued(p),
         NEW out \in ServeRefresh(p), family' = out.family
  PROVE  \/ /\ RowsStay /\ out.answer = Refusal
            /\ \A g \in Families : g # p.family \/ Newest(p) => family'[g] = family[g]
         \/ /\ Newest(p) /\ Rotates(p.family, p.n + 1) /\ family'[p.family].live
            /\ out.answer \in Pair /\ out.answer.family = p.family
            /\ out.answer.n = p.n + 1
<1> DEFINE f == p.family
<1>1. f \in Families /\ family[f] # Idle BY PairFields DEF Issued
<1>2. family[f].org \in Orgs BY <1>1, RowFields
<1>3. CASE ~family[f].live
  <2>1. out = Unchanged(Refusal) BY <1>3 DEF ServeRefresh
  <2> QED BY <2>1, RowsUnchanged DEF Unchanged
<1>4. CASE family[f].live /\ p.n # family[f].n
  <2>1. out = Ended(f, Refusal) BY <1>4 DEF ServeRefresh
  <2>2. /\ RowsStay /\ out.answer = Refusal
        /\ \A g \in Families \ {f} : family'[g] = family[g]
    BY <1>1, <2>1, EndedRow
  <2> QED BY <1>4, <2>2 DEF Newest
<1>5. CASE family[f].live /\ p.n = family[f].n
  <2>1. out \in Rotated(f, family[f].org) BY <1>5 DEF ServeRefresh
  <2> QED BY <1>1, <1>2, <1>5, <2>1, RotationServed DEF Newest
<1> QED BY <1>3, <1>4, <1>5

\* A request: it leaves the rotations alone, opens a family, or is a switch that rotates.
LEMMA RequestServed ==
  ASSUME TypeOK, KeptAreIssued, RequestsMakeSense,
         NEW c \in Calls, request[c] # Idle,
         NEW out \in Serve(request[c]), family' = out.family
  PROVE  \/ /\ RowsStay /\ out.answer \in {Granted, Refusal}
            /\ ~(/\ request[c].kind # "login" /\ request[c].pair = Demo
                 /\ ~request[c].again /\ out.answer = Refusal)
            /\ request[c].kind = "switch" => family' = family
         \/ /\ request[c].kind = "login"
            /\ \E f \in Families :
                 /\ family[f] = Idle /\ Rotates(f, 0)
                 /\ out.answer \in Pair /\ out.answer.family = f /\ out.answer.n = 0
         \/ /\ request[c].kind = "switch" /\ request[c].pair \in Pair
            /\ LET f == request[c].pair.family
               IN /\ family[f] # Idle /\ Rotates(f, family[f].n + 1) /\ family' # family
                  /\ out.answer \in Pair /\ out.answer.family = f
                  /\ out.answer.n = family[f].n + 1
<1> DEFINE r == request[c]
           f == r.pair.family
<1>1. r \in Request /\ r.kind \in Kinds /\ r.pair \in Tokens BY RequestFields
<1>2. r.kind # "login" => r.pair # NoPair BY DEF RequestsMakeSense
<1>3. Refusal # Granted /\ Demo \notin Pair BY MarksAreNoValues
<1> HIDE DEF r
<1>4. CASE r.kind = "login"
  <2>1. out \in ServeLogin BY <1>4 DEF Serve, r
  <2> QED BY <1>4, <2>1, LoginServed DEF r
<1>5. CASE r.kind # "login" /\ r.pair = Demo /\ ~r.again
  <2>1. ~Authentic(r.pair) BY <1>3, <1>5 DEF Authentic
  <2>2. out = Unchanged(Granted) BY <1>5, <2>1 DEF Serve, r
  <2> QED BY <1>3, <2>2, RowsUnchanged DEF Unchanged
<1>6. CASE r.kind # "login" /\ ~Authentic(r.pair) /\ (r.pair = Demo => r.again)
  <2>1. out = Unchanged(Refusal) BY <1>6 DEF Serve, r
  <2> QED BY <1>6, <2>1, RowsUnchanged DEF Unchanged, r
<1>7. CASE r.kind # "login" /\ Authentic(r.pair)
  <2>1. r.pair \in Pair /\ f \in Families BY <1>7, PairFields DEF Authentic
  <2>2. Keeps(r.pair) BY DEF Keeps, r
  <2>3. family[f] # Idle BY <2>1, <2>2 DEF KeptAreIssued, Issued
  <2>4. r.pair # Demo BY <1>3, <2>1
  <2>5. CASE r.kind = "load"
    <3>1. out = Unchanged(Granted) BY <1>7, <2>4, <2>5 DEF Serve, r
    <3> QED BY <1>3, <3>1, RowsUnchanged DEF Unchanged
  <2>6. CASE r.kind = "logout"
    <3>1. out \in ServeLogout(r.pair) BY <1>7, <2>4, <2>6 DEF Serve, r
    <3>2. out = Ended(f, Granted) BY <3>1 DEF ServeLogout
    <3> QED BY <1>3, <2>1, <2>3, <2>6, <3>2, EndedRow DEF r
  <2>7. CASE r.kind = "switch"
    <3>1. out \in ServeSwitch(r.pair, r.org) BY <1>7, <2>4, <2>7 DEF Serve, r
    <3>2. out \in Rotated(f, r.org) BY <3>1 DEF ServeSwitch
    <3>3. r.org \in Orgs BY <2>7 DEF RequestsMakeSense, r
    <3> QED BY <2>1, <2>3, <2>7, <3>2, <3>3, RotationServed DEF r
  <2> QED BY <1>1, <1>7, <2>5, <2>6, <2>7 DEF Kinds
<1> QED BY <1>4, <1>5, <1>6, <1>7

\* A carried request, by what became of the rows.
RequestCarried(c, a) ==
  /\ request[c] # Idle /\ request[c].at = "sent" /\ a \in Answers
  /\ request' = [request EXCEPT ![c] = [@ EXCEPT !.at = "answered", !.answer = a]]
  /\ UNCHANGED <<expired, phoneVars, ready, restore, renewal>>
  /\ unheard \subseteq unheard' /\ unheard' \subseteq Families
  /\ switched \subseteq switched' /\ switched' \subseteq Families
  /\ \/ /\ RowsStay /\ a \notin Pair
        /\ ~(/\ request[c].kind # "login" /\ request[c].pair = Demo
             /\ ~request[c].again /\ a = Refusal)
     \/ /\ request[c].kind = "login"
        /\ \E f \in Families : /\ family[f] = Idle /\ Rotates(f, 0)
                               /\ a \in Pair => a.family = f /\ a.n = 0
     \/ /\ request[c].kind = "switch" /\ request[c].pair \in Pair
        /\ \E f \in Families : /\ f = request[c].pair.family /\ f \in switched'
                               /\ family[f] # Idle /\ Rotates(f, family[f].n + 1)
                               /\ a \in Pair => a.family = f /\ a.n = family[f].n + 1

LEMMA RequestIsCarried ==
  ASSUME SessionInv, NEW c \in Calls, CarryRequest(c)
  PROVE  \E a : RequestCarried(c, a)
<1> DEFINE r == request[c]
<1>1. /\ r # Idle /\ r.at = "sent"
      /\ switched' = IF family' # family /\ r.kind = "switch"
                     THEN switched \cup {r.pair.family} ELSE switched
      /\ UNCHANGED <<expired, phoneVars, ready, restore, renewal>>
  BY DEF CarryRequest
<1>2. \E a :
        /\ request' = [request EXCEPT ![c].at = "answered", ![c].answer = a]
        /\ \/ \E out \in Serve(r) :
                /\ family' = out.family
                /\ \/ a = out.answer /\ unheard' = unheard
                   \/ /\ a = Lost
                      /\ unheard' = unheard \cup
                           {f \in Families : out.answer \in Pair /\ out.answer.family = f}
           \/ a = Lost /\ family' = family /\ unheard' = unheard
  BY DEF CarryRequest, Carry
<1>3. PICK a : <1>2!(a) BY <1>2
<1>4. r \in Request /\ r.pair \in Tokens BY <1>1, RequestFields DEF SessionInv
<1>5. /\ {Granted, Refusal, Lost} \cap Pair = {} /\ Lost # Refusal
      /\ {Granted, Refusal, Lost} \subseteq Answers /\ Pair \subseteq Answers
  BY MarksAreNoValues DEF SessionInv, Answers
<1>6. unheard \subseteq Families /\ switched \subseteq Families
  BY DEF SessionInv, TypeOK
<1>7. unheard \subseteq unheard' /\ unheard' \subseteq Families BY <1>3, <1>6
<1>8. request' = [request EXCEPT ![c] = [@ EXCEPT !.at = "answered", !.answer = a]]
  BY <1>3
<1> HIDE DEF r
<1> DEFINE Outcome ==
      \/ /\ RowsStay /\ a \notin Pair
         /\ ~(r.kind # "login" /\ r.pair = Demo /\ ~r.again /\ a = Refusal)
         /\ r.kind = "switch" => family' = family
      \/ /\ r.kind = "login"
         /\ \E f \in Families : /\ family[f] = Idle /\ Rotates(f, 0)
                                /\ a \in Pair => a.family = f /\ a.n = 0
      \/ /\ r.kind = "switch" /\ r.pair \in Pair /\ family' # family
         /\ LET f == r.pair.family
            IN /\ family[f] # Idle /\ Rotates(f, family[f].n + 1)
               /\ a \in Pair => a.family = f /\ a.n = family[f].n + 1
<1>9. a \in Answers /\ Outcome
  <2>1. CASE a = Lost /\ family' = family
    BY <1>5, <2>1, RowsUnchanged DEF SessionInv
  <2>2. ASSUME NEW out \in Serve(r), family' = out.family, a \in {out.answer, Lost}
        PROVE  a \in Answers /\ Outcome
    <3> DEFINE f == r.pair.family
    <3>1. \/ /\ RowsStay /\ out.answer \in {Granted, Refusal}
             /\ ~(/\ r.kind # "login" /\ r.pair = Demo
                  /\ ~r.again /\ out.answer = Refusal)
             /\ r.kind = "switch" => family' = family
          \/ /\ r.kind = "login"
             /\ \E g \in Families :
                  /\ family[g] = Idle /\ Rotates(g, 0)
                  /\ out.answer \in Pair /\ out.answer.family = g /\ out.answer.n = 0
          \/ /\ r.kind = "switch" /\ r.pair \in Pair
             /\ family[f] # Idle /\ Rotates(f, family[f].n + 1) /\ family' # family
             /\ out.answer \in Pair /\ out.answer.family = f
             /\ out.answer.n = family[f].n + 1
      BY <1>1, <2>2, RequestServed DEF SessionInv, r
    <3> QED BY <1>5, <2>2, <3>1
  <2> QED BY <1>3, <2>1, <2>2 DEF r
<1>10. /\ switched \subseteq switched' /\ switched' \subseteq Families
       /\ r.kind = "switch" /\ family' # family => r.pair.family \in switched'
  <2>1. r.kind = "switch" /\ family' # family => r.pair.family \in Families
    BY <1>9, PairFields
  <2> QED BY <1>1, <1>6, <2>1 DEF r
<1>11. RequestCarried(c, a)
  BY <1>1, <1>7, <1>8, <1>9, <1>10 DEF RequestCarried, r
<1> QED BY <1>11

\* A carried refresh of pair p, answered a.
RowsAfterRefresh(p, a) ==
  \/ /\ RowsStay /\ a \notin Pair /\ unheard' = unheard
     /\ \A g \in Families : g # p.family \/ Newest(p) => family'[g] = family[g]
  \/ /\ Newest(p) /\ Rotates(p.family, p.n + 1) /\ family'[p.family].live
     /\ \/ a \in Pair /\ a.family = p.family /\ a.n = p.n + 1 /\ unheard' = unheard
        \/ a \notin Pair /\ unheard' = unheard \cup {p.family}

LEMMA RefreshIsCarried ==
  ASSUME SessionInv, NEW p \in Pair, Issued(p), NEW a,
         \/ \E out \in ServeRefresh(p) :
              /\ family' = out.family
              /\ \/ a = out.answer /\ unheard' = unheard
                 \/ /\ a = Lost
                    /\ unheard' = unheard \cup
                         {f \in Families : out.answer \in Pair /\ out.answer.family = f}
         \/ a = Lost /\ family' = family /\ unheard' = unheard
  PROVE  a \in Answers /\ RowsAfterRefresh(p, a)
<1>1. /\ {Granted, Refusal, Lost} \cap Pair = {}
      /\ {Granted, Refusal, Lost} \subseteq Answers /\ Pair \subseteq Answers
  BY MarksAreNoValues DEF SessionInv, Answers
<1>2. p.family \in Families BY PairFields
<1>3. CASE a = Lost /\ family' = family /\ unheard' = unheard
  BY <1>1, <1>3, RowsUnchanged DEF SessionInv, RowsAfterRefresh
<1>4. ASSUME NEW out \in ServeRefresh(p), family' = out.family,
             \/ a = out.answer /\ unheard' = unheard
             \/ /\ a = Lost
                /\ unheard' = unheard \cup
                     {f \in Families : out.answer \in Pair /\ out.answer.family = f}
      PROVE  a \in Answers /\ RowsAfterRefresh(p, a)
  <2>1. CASE RowsStay /\ out.answer = Refusal
             /\ \A g \in Families : g # p.family \/ Newest(p) => family'[g] = family[g]
    BY <1>1, <1>4, <2>1 DEF RowsAfterRefresh
  <2>2. CASE /\ Newest(p) /\ Rotates(p.family, p.n + 1) /\ family'[p.family].live
             /\ out.answer \in Pair /\ out.answer.family = p.family
             /\ out.answer.n = p.n + 1
    <3>1. {f \in Families : out.answer \in Pair /\ out.answer.family = f} = {p.family}
      BY <1>2, <2>2
    <3> QED BY <1>1, <1>4, <2>2, <3>1 DEF RowsAfterRefresh
  <2> QED BY <1>4, <2>1, <2>2, RefreshServed DEF SessionInv
<1> QED BY <1>3, <1>4

LEMMA RefreshPair ==
  ASSUME SessionInv, NEW r \in {renewal, restore}, r # Idle
  PROVE  r \in Refresh /\ r.pair \in Pair /\ Issued(r.pair) /\ Keeps(r.pair)
<1>1. r \in Refresh /\ r.pair \in Pair BY RefreshFields DEF SessionInv
<1>2. Keeps(r.pair) BY DEF Keeps
<1> QED BY <1>1, <1>2 DEF SessionInv, KeptAreIssued

LEMMA AnsweredRefresh ==
  ASSUME NEW r \in Refresh, NEW a \in Answers, NEW q, q = [r EXCEPT !.answer = a]
  PROVE  q \in Refresh /\ q # Idle /\ q.pair = r.pair /\ q.answer = a
<1>1. q \in Refresh /\ q.pair = r.pair /\ q.answer = a BY DEF Refresh
<1> QED BY <1>1, MarksAreNoValues

RenewalCarried(a) ==
  /\ renewal # Idle /\ renewal.answer = Idle /\ a \in Answers
  /\ renewal' = [renewal EXCEPT !.answer = a]
  /\ RowsAfterRefresh(renewal.pair, a)
  /\ switched' = IF a \in Pair THEN switched \ {renewal.pair.family} ELSE switched
  /\ UNCHANGED <<expired, phoneVars, ready, restore, request>>

LEMMA RenewalIsCarried ==
  ASSUME SessionInv, CarryRenewal
  PROVE  \E a : RenewalCarried(a)
<1>1. /\ renewal # Idle /\ renewal.answer = Idle
      /\ switched' = IF renewal'.answer \in Pair
                     THEN switched \ {renewal.pair.family} ELSE switched
      /\ UNCHANGED <<expired, phoneVars, ready, restore, request>>
  BY DEF CarryRenewal
<1>2. \E a :
        /\ renewal' = [renewal EXCEPT !.answer = a]
        /\ \/ \E out \in ServeRefresh(renewal.pair) :
                /\ family' = out.family
                /\ \/ a = out.answer /\ unheard' = unheard
                   \/ /\ a = Lost
                      /\ unheard' = unheard \cup
                           {f \in Families : out.answer \in Pair /\ out.answer.family = f}
           \/ a = Lost /\ family' = family /\ unheard' = unheard
  BY DEF CarryRenewal, Carry
<1>3. PICK a : <1>2!(a) BY <1>2
<1>4. renewal \in Refresh /\ renewal.pair \in Pair /\ Issued(renewal.pair)
  BY <1>1, RefreshPair
<1>5. a \in Answers /\ RowsAfterRefresh(renewal.pair, a)
  BY <1>3, <1>4, RefreshIsCarried
<1>6. renewal'.answer = a BY <1>3, <1>4, <1>5, AnsweredRefresh DEF SessionInv
<1> QED BY <1>1, <1>3, <1>5, <1>6 DEF RenewalCarried

RestoreCarried(a) ==
  /\ restore # Idle /\ restore.answer = Idle /\ a \in Answers
  /\ restore' = [restore EXCEPT !.answer = a]
  /\ RowsAfterRefresh(restore.pair, a)
  /\ switched' = IF a \in Pair THEN switched \ {restore.pair.family} ELSE switched
  /\ UNCHANGED <<expired, phoneVars, ready, renewal, request>>

LEMMA RestoreIsCarried ==
  ASSUME SessionInv, CarryRestore
  PROVE  \E a : RestoreCarried(a)
<1>1. /\ restore # Idle /\ restore.answer = Idle
      /\ switched' = IF restore'.answer \in Pair
                     THEN switched \ {restore.pair.family} ELSE switched
      /\ UNCHANGED <<expired, phoneVars, ready, renewal, request>>
  BY DEF CarryRestore
<1>2. \E a :
        /\ restore' = [restore EXCEPT !.answer = a]
        /\ \/ \E out \in ServeRefresh(restore.pair) :
                /\ family' = out.family
                /\ \/ a = out.answer /\ unheard' = unheard
                   \/ /\ a = Lost
                      /\ unheard' = unheard \cup
                           {f \in Families : out.answer \in Pair /\ out.answer.family = f}
           \/ a = Lost /\ family' = family /\ unheard' = unheard
  BY DEF CarryRestore, Carry
<1>3. PICK a : <1>2!(a) BY <1>2
<1>4. restore \in Refresh /\ restore.pair \in Pair /\ Issued(restore.pair)
  BY <1>1, RefreshPair
<1>5. a \in Answers /\ RowsAfterRefresh(restore.pair, a)
  BY <1>3, <1>4, RefreshIsCarried
<1>6. restore'.answer = a BY <1>3, <1>4, <1>5, AnsweredRefresh DEF SessionInv
<1> QED BY <1>1, <1>3, <1>5, <1>6 DEF RestoreCarried

-----------------------------------------------------------------------------
(* What a step must leave for each part of the invariant. *)

KeepsNoMore == \A p \in Pair : Keeps(p)' => Keeps(p)
HandedBefore(c) == /\ GivenPair(c) /\ request'[c].answer = request[c].answer
                   /\ request'[c].kind = request[c].kind
HandsNoMore == \A c \in Calls : GivenPair(c)' => HandedBefore(c)
ForgetsNothing == unheard \subseteq unheard' /\ switched \subseteq switched'

LEMMA RotationsStay ==
  ASSUME RowsStay, NEW p \in Pair
  PROVE  (Newest(p)' <=> Newest(p)) /\ (Issued(p)' <=> Issued(p))
BY PairFields DEF RowsStay, Newest, Issued

LEMMA NothingNew ==
  ASSUME SessionInv, RowsStay, KeepsNoMore, HandsNoMore
  PROVE  KeptAreIssued' /\ HandedAreNews'
<1>1. \A p \in Pair : (Newest(p)' <=> Newest(p)) /\ (Issued(p)' <=> Issued(p))
  BY RotationsStay
<1>2. KeptAreIssued' BY <1>1 DEF SessionInv, KeptAreIssued, KeepsNoMore
<1>3. ASSUME NEW c \in Calls, GivenPair(c)'
      PROVE  /\ Newest(request[c].answer)'
             /\ \/ request'[c].kind = "login" /\ request'[c].answer.n = 0
                \/ request'[c].kind = "switch"
             /\ \A p \in Pair : Keeps(p)' /\ p.family = request'[c].answer.family
                                  => p.n < request'[c].answer.n
             /\ \A d \in Calls : GivenPair(d)' /\ request'[d].answer.family = request'[c].answer.family
                                 => c = d
  <2>1. /\ GivenPair(c) /\ request'[c].answer = request[c].answer
        /\ request'[c].kind = request[c].kind /\ request[c].answer \in Pair
    BY <1>3 DEF HandsNoMore, HandedBefore, GivenPair
  <2> DEFINE a == request[c].answer
  <2>2. family'[a.family] # Idle /\ a.n = family'[a.family].n
    <3>1. Newest(a) BY <2>1 DEF SessionInv, HandedAreNews
    <3>2. a.family \in Families BY <2>1, PairFields
    <3> QED BY <3>1, <3>2 DEF Newest, RowsStay
  <2>3. \A d \in Calls : GivenPair(d)' => GivenPair(d) /\ request'[d].answer = request[d].answer
    BY DEF HandsNoMore, HandedBefore
  <2>4. \A p \in Pair : Keeps(p)' => Keeps(p) BY DEF KeepsNoMore
  <2>5. \/ request[c].kind = "login" /\ request[c].answer.n = 0
        \/ request[c].kind = "switch"
    BY <2>1 DEF SessionInv, HandedAreNews
  <2>6. \A p \in Pair : Keeps(p) /\ p.family = request[c].answer.family
                          => p.n < request[c].answer.n
    BY <2>1 DEF SessionInv, HandedAreNews
  <2>7. \A d \in Calls : GivenPair(d) /\ request[d].answer.family = request[c].answer.family
                         => c = d
    BY <2>1 DEF SessionInv, HandedAreNews
  <2>8. \A p \in Pair : Keeps(p)' /\ p.family = request'[c].answer.family
                                  => p.n < request'[c].answer.n
    BY <2>1, <2>4, <2>6
  <2>9. \A d \in Calls : GivenPair(d)' /\ request'[d].answer.family = request'[c].answer.family
                                 => c = d
    BY <2>1, <2>3, <2>7
  <2>10. Newest(request[c].answer)' BY <2>1, <2>2 DEF Newest
  <2> QED BY <2>1, <2>5, <2>8, <2>9, <2>10
<1>4. HandedAreNews' BY <1>3 DEF HandedAreNews
<1> QED BY <1>2, <1>4

\* Family f rotates to n; a request may be handed the new pair, the refresh may keep it.
LEMMA NewRotation ==
  ASSUME SessionInv, NEW f \in Families, NEW n, Rotates(f, n),
         family[f] # Idle => family[f].n <= n,
         \A d \in Calls : GivenPair(d) => request[d].answer.family # f,
         \A p \in Pair : Keeps(p)' => Keeps(p) \/ (p.family = f /\ p.n <= n),
         NEW c, \A d \in Calls : GivenPair(d)' =>
           \/ HandedBefore(d)
           \/ /\ d = c /\ request'[c].answer.family = f /\ request'[c].answer.n = n
              /\ \/ request'[c].kind = "login" /\ n = 0
                 \/ request'[c].kind = "switch"
              /\ \A p \in Pair : Keeps(p)' /\ p.family = f => p.n < n
  PROVE  KeptAreIssued' /\ HandedAreNews'
<1>1. /\ family'[f] # Idle /\ family'[f].n = n /\ n \in 0..MaxRotations
      /\ \A g \in Families \ {f} : family'[g] = family[g]
  BY DEF Rotates
<1>2. KeptAreIssued'
  <2>1. ASSUME NEW p \in Pair, Keeps(p)' PROVE Issued(p)'
    <3>1. p.family \in Families /\ p.n \in 0..MaxRotations BY PairFields
    <3>2. CASE p.family # f
      <4>1. Issued(p) BY <2>1, <3>2 DEF SessionInv, KeptAreIssued
      <4> QED BY <1>1, <3>1, <3>2, <4>1 DEF Issued
    <3>3. CASE p.family = f /\ p.n <= n BY <1>1, <3>3 DEF Issued
    <3>4. CASE p.family = f /\ Keeps(p)
      <4>1. family[f] # Idle /\ p.n <= family[f].n
        BY <3>4 DEF SessionInv, KeptAreIssued, Issued
      <4>2. family[f].n \in 0..MaxRotations BY <4>1, RowFields DEF SessionInv
      <4>3. p.n <= n BY <1>1, <3>1, <4>1, <4>2, RotationsAreBounded DEF SessionInv
      <4> QED BY <1>1, <3>4, <4>3 DEF Issued
    <3> QED BY <2>1, <3>2, <3>3, <3>4
  <2> QED BY <2>1 DEF KeptAreIssued
<1>3. ASSUME NEW d \in Calls, GivenPair(d)'
      PROVE  /\ Newest(request[d].answer)'
             /\ \/ request'[d].kind = "login" /\ request'[d].answer.n = 0
                \/ request'[d].kind = "switch"
             /\ \A p \in Pair : Keeps(p)' /\ p.family = request'[d].answer.family
                                  => p.n < request'[d].answer.n
             /\ \A e \in Calls : GivenPair(e)' /\ request'[e].answer.family = request'[d].answer.family
                                 => d = e
  <2>1. CASE HandedBefore(d)
    <3> DEFINE b == request[d].answer
    <3>1. /\ GivenPair(d) /\ request'[d].answer = b /\ request'[d].kind = request[d].kind
          /\ b \in Pair /\ b.family # f /\ b.family \in Families
      BY <2>1, PairFields DEF HandedBefore, GivenPair
    <3>2. /\ family[b.family] # Idle /\ b.n = family[b.family].n
          /\ \/ request[d].kind = "login" /\ b.n = 0
             \/ request[d].kind = "switch"
          /\ \A p \in Pair : Keeps(p) /\ p.family = b.family => p.n < b.n
          /\ \A e \in Calls : GivenPair(e) /\ request[e].answer.family = b.family => d = e
      BY <3>1 DEF SessionInv, HandedAreNews, Newest
    <3> HIDE DEF b
    <3>3. family'[b.family] = family[b.family] BY <1>1, <3>1
    <3>4. \A e \in Calls : GivenPair(e)' /\ request'[e].answer.family = b.family => d = e
      BY <3>1, <3>2 DEF HandedBefore
    <3>5. \A p \in Pair : Keeps(p)' /\ p.family = b.family => p.n < b.n
      BY <3>1, <3>2
    <3>6. Newest(request[d].answer)' BY <3>1, <3>2, <3>3 DEF Newest
    <3> QED BY <3>1, <3>2, <3>4, <3>5, <3>6
  <2>2. CASE ~HandedBefore(d)
    <3>1. /\ d = c /\ request'[c].answer.family = f /\ request'[c].answer.n = n
          /\ \/ request'[c].kind = "login" /\ n = 0
             \/ request'[c].kind = "switch"
          /\ \A p \in Pair : Keeps(p)' /\ p.family = f => p.n < n
      BY <1>3, <2>2
    <3>2. Newest(request[d].answer)' BY <1>1, <3>1 DEF Newest
    <3>3. \A e \in Calls : GivenPair(e)' /\ request'[e].answer.family = f => d = e
      BY <3>1 DEF HandedBefore
    <3> QED BY <3>1, <3>2, <3>3
  <2> QED BY <2>1, <2>2
<1>4. HandedAreNews' BY <1>3 DEF HandedAreNews
<1> QED BY <1>2, <1>4

\* Refreshes and what is stored, when none of them changes.
LEMMA RefreshesStay ==
  ASSUME SessionInv, ForgetsNothing, UNCHANGED <<renewal, restore, stored>>,
         \A p \in Pair : Keeps(p) /\ Followed(p.family)' /\ Newest(p) => Newest(p)'
  PROVE  RefreshIsNewest(renewal)' /\ RefreshIsNewest(restore)' /\ StoredIsNewest'
<1>1. \A f : Followed(f)' => Followed(f) BY DEF Followed, ForgetsNothing
<1>2. \A f : (Succeeded(renewal, f)' <=> Succeeded(renewal, f))
             /\ (Succeeded(restore, f)' <=> Succeeded(restore, f))
  BY DEF Succeeded
<1>3. StoredIsNewest'
  BY <1>1, <1>2 DEF SessionInv, StoredIsNewest, Keeps
<1>4. \A r \in {renewal, restore} : r # Idle => r.pair \in Pair
  BY RefreshFields DEF SessionInv
<1>5. RefreshIsNewest(renewal)'
  BY <1>1, <1>4 DEF SessionInv, RefreshIsNewest, Keeps
<1>6. RefreshIsNewest(restore)'
  BY <1>1, <1>4 DEF SessionInv, RefreshIsNewest, Keeps
<1> QED BY <1>3, <1>5, <1>6

-----------------------------------------------------------------------------
(* The steps. *)

LEMMA AskKeeps ==
  ASSUME SessionInv, ready, NEW c \in Calls,
         NEW kind \in Kinds, NEW o \in Orgs \cup {Idle}, Ask(c, kind, o),
         kind # "login" => shown # NoPair,
         kind = "switch" => o \in Orgs /\ ~UnderWay("switch")
  PROVE  SessionInv'
<1> DEFINE q == [kind |-> kind, pair |-> shown, org |-> o,
                 again |-> FALSE, at |-> "sent", answer |-> Idle]
<1>1. /\ request[c] = Idle /\ request' = [request EXCEPT ![c] = q]
      /\ UNCHANGED <<family, expired, stored, held, shown, ready, restore, renewal,
                     unheard, switched>>
  BY DEF Ask, serverVars, phoneVars
<1>2. q \in Request
  <2>1. shown \in Tokens BY DEF SessionInv, TypeOK
  <2> QED BY <2>1 DEF Request
<1>3. q # Idle BY <1>2, MarksAreNoValues DEF SessionInv
<1>4. /\ q.kind = kind /\ q.pair = shown /\ q.org = o /\ q.again = FALSE
      /\ q.at = "sent" /\ q.answer = Idle
  OBVIOUS
<1>5. Idle \notin Pair /\ NoPair \notin Pair /\ Idle # Refusal
  BY MarksAreNoValues DEF SessionInv
<1> HIDE DEF q
<1>6. /\ request'[c] = q
      /\ \A d \in Calls \ {c} : request'[d] = request[d]
  BY <1>1 DEF SessionInv, TypeOK
<1>7. TypeOK' BY <1>1, <1>2 DEF SessionInv, TypeOK
<1>8. PhasesInOrder' BY <1>1 DEF SessionInv, PhasesInOrder
<1>9. RequestsMakeSense'
  BY <1>4, <1>5, <1>6 DEF SessionInv, RequestsMakeSense
<1>10. OneSwitch'
  BY <1>1, <1>4, <1>6 DEF SessionInv, OneSwitch, UnderWay
<1>11. RowsStay BY <1>1, RowsUnchanged DEF SessionInv
<1>12. KeepsNoMore
  <2>1. shown \in {NoPair, stored} BY DEF SessionInv, PhasesInOrder
  <2> QED BY <1>1, <1>4, <1>5, <1>6, <2>1 DEF KeepsNoMore, Keeps
<1>13. HandsNoMore BY <1>4, <1>5, <1>6 DEF HandsNoMore, HandedBefore, GivenPair
<1>14. KeptAreIssued' /\ HandedAreNews' BY <1>11, <1>12, <1>13, NothingNew
<1>15. RefreshIsNewest(renewal)' /\ RefreshIsNewest(restore)' /\ StoredIsNewest'
  BY <1>1, <1>11, RotationsStay, RefreshesStay DEF ForgetsNothing
<1> QED BY <1>7, <1>8, <1>9, <1>10, <1>14, <1>15 DEF SessionInv

LEMMA PressKeeps ==
  ASSUME SessionInv, NEW c \in Calls,
         SubmitLogin(c) \/ LoadScreen(c) \/ ChooseOrganization(c) \/ Logout(c)
  PROVE  SessionInv'
<1>1. CASE SubmitLogin(c)
  BY <1>1, AskKeeps DEF SubmitLogin, SignInOffered, SignInShown, Kinds
<1>2. CASE LoadScreen(c)
  BY <1>2, AskKeeps DEF LoadScreen, ScreensShown, Kinds
<1>3. CASE ChooseOrganization(c)
  <2>1. PICK o \in Orgs : Ask(c, "switch", o)
    BY <1>3 DEF ChooseOrganization
  <2> QED BY <1>3, <2>1, AskKeeps
          DEF ChooseOrganization, SwitchOffered, ScreensShown, Kinds
<1>4. CASE Logout(c)
  BY <1>4, AskKeeps DEF Logout, LogoutOffered, ScreensShown, Kinds
<1> QED BY <1>1, <1>2, <1>3, <1>4

LEMMA CarryRequestKeeps ==
  ASSUME SessionInv, NEW c \in Calls, CarryRequest(c)
  PROVE  SessionInv'
<1>1. PICK a : RequestCarried(c, a) BY RequestIsCarried
<1> DEFINE r == request[c]
           q == [r EXCEPT !.at = "answered", !.answer = a]
<1>2. /\ r # Idle /\ r.at = "sent" /\ a \in Answers
      /\ request' = [request EXCEPT ![c] = q]
      /\ UNCHANGED <<expired, stored, held, shown, ready, restore, renewal>>
      /\ unheard \subseteq unheard' /\ unheard' \subseteq Families
      /\ switched \subseteq switched' /\ switched' \subseteq Families
  BY <1>1 DEF RequestCarried, phoneVars
<1>3. r \in Request BY <1>2, RequestFields DEF SessionInv
<1>m. a \in Answers BY <1>2 DEF SessionInv
<1>q. q = [r EXCEPT !.at = "answered", !.answer = a] OBVIOUS
<1>r. r = request[c] OBVIOUS
<1> HIDE DEF r, q
<1>4. /\ q \in Request /\ q # Idle
      /\ q.kind = r.kind /\ q.pair = r.pair /\ q.org = r.org /\ q.again = r.again
      /\ q.at = "answered" /\ q.answer = a
  <2>1. /\ q \in Request
        /\ q.kind = r.kind /\ q.pair = r.pair /\ q.org = r.org /\ q.again = r.again
        /\ q.at = "answered" /\ q.answer = a
    BY <1>3, <1>q, <1>m DEF Request
  <2> QED BY <2>1, <1>m, MarksAreNoValues
<1>5. \/ /\ RowsStay /\ a \notin Pair
         /\ ~(r.kind # "login" /\ r.pair = Demo /\ ~r.again /\ a = Refusal)
      \/ /\ r.kind = "login"
         /\ \E f \in Families : /\ family[f] = Idle /\ Rotates(f, 0)
                                /\ a \in Pair => a.family = f /\ a.n = 0
      \/ /\ r.kind = "switch" /\ r.pair \in Pair
         /\ \E f \in Families : /\ f = r.pair.family /\ f \in switched'
                                /\ family[f] # Idle /\ Rotates(f, family[f].n + 1)
                                /\ a \in Pair => a.family = f /\ a.n = family[f].n + 1
  BY <1>1 DEF RequestCarried, r
<1>6. /\ request'[c] = q /\ request[c] = r
      /\ \A d \in Calls \ {c} : request'[d] = request[d]
  BY <1>2, <1>r DEF SessionInv, TypeOK
<1>7. Refusal \notin Pair /\ Demo \notin Pair
  BY MarksAreNoValues DEF SessionInv
<1>8. TypeOK'
  <2>1. family' \in [Families -> Row \cup {Idle}] BY <1>5 DEF RowsStay, Rotates
  <2>2. request' \in [Calls -> Request \cup {Idle}]
    BY <1>2, <1>4 DEF SessionInv, TypeOK
  <2> QED BY <1>2, <2>1, <2>2 DEF SessionInv, TypeOK
<1>9. PhasesInOrder'
  BY <1>2, <1>6 DEF SessionInv, PhasesInOrder
<1>10. RequestsMakeSense'
  BY <1>2, <1>4, <1>5, <1>6, <1>7 DEF SessionInv, RequestsMakeSense
<1>11. OneSwitch' BY <1>2, <1>4, <1>6 DEF SessionInv, OneSwitch
<1>12. \A p \in Pair : Keeps(p)' <=> Keeps(p)
  BY <1>2, <1>4, <1>6 DEF Keeps
<1>13. \A p \in Pair : Keeps(p) => Issued(p)
  BY DEF SessionInv, KeptAreIssued
<1>14. ASSUME NEW p \in Pair, Keeps(p), Followed(p.family)', Newest(p)
       PROVE  Newest(p)'
  <2>1. p.family \in Families /\ family[p.family] # Idle /\ p.family \notin switched'
    BY <1>14, PairFields DEF Newest, Followed
  <2>2. CASE RowsStay BY <1>14, <2>2, RotationsStay
  <2>3. ASSUME NEW f \in Families, NEW n, Rotates(f, n), p.family # f
        PROVE  Newest(p)'
    BY <1>14, <2>1, <2>3 DEF Newest, Rotates
  <2> QED BY <1>5, <2>1, <2>2, <2>3, PairFields
<1>15. KeptAreIssued' /\ HandedAreNews'
  <2>1. \A d \in Calls \ {c} : GivenPair(d)' => HandedBefore(d)
    BY <1>6 DEF GivenPair, HandedBefore
  <2>2. GivenPair(c)' => a \in Pair /\ request'[c].answer = a /\ request'[c].kind = r.kind
    BY <1>4, <1>6 DEF GivenPair
  <2>3. CASE RowsStay /\ a \notin Pair
    <3>1. HandsNoMore BY <2>1, <2>2, <2>3 DEF HandsNoMore
    <3> QED BY <1>12, <2>3, <3>1, NothingNew DEF KeepsNoMore
  <2>4. ASSUME NEW f \in Families, NEW n, Rotates(f, n),
               family[f] # Idle => family[f].n <= n,
               \A d \in Calls : GivenPair(d) => request[d].answer.family # f,
               \A p \in Pair : Keeps(p) /\ p.family = f => p.n < n,
               a \in Pair => a.family = f /\ a.n = n,
               (r.kind = "login" /\ n = 0) \/ r.kind = "switch"
        PROVE  KeptAreIssued' /\ HandedAreNews'
    <3>1. \A p \in Pair : Keeps(p)' => Keeps(p) BY <1>12
    <3>2. \A p \in Pair : Keeps(p)' /\ p.family = f => p.n < n BY <1>12, <2>4
    <3> QED BY <2>1, <2>2, <2>4, <3>1, <3>2, NewRotation
  <2>5. \A d \in Calls : GivenPair(d) => /\ request[d].answer \in Pair
                                     /\ Newest(request[d].answer)
    BY DEF SessionInv, HandedAreNews, GivenPair
  <2>6. ASSUME r.kind = "login", NEW f \in Families, family[f] = Idle, Rotates(f, 0),
               a \in Pair => a.family = f /\ a.n = 0
        PROVE  KeptAreIssued' /\ HandedAreNews'
    <3>1. \A p \in Pair : Keeps(p) => p.family # f BY <1>13, <2>6 DEF Issued
    <3>2. \A d \in Calls : GivenPair(d) => request[d].answer.family # f
      BY <2>5, <2>6 DEF Newest
    <3> QED BY <2>4, <2>6, <3>1, <3>2
  <2>7. ASSUME r.kind = "switch", r.pair \in Pair,
               NEW f \in Families, f = r.pair.family, family[f] # Idle,
               Rotates(f, family[f].n + 1),
               a \in Pair => a.family = f /\ a.n = family[f].n + 1
        PROVE  KeptAreIssued' /\ HandedAreNews'
    <3>1. family[f].n \in 0..MaxRotations BY <2>7, RowFields DEF SessionInv
    <3>2. ASSUME NEW p \in Pair, Keeps(p), p.family = f PROVE p.n < family[f].n + 1
      <4>1. p.n <= family[f].n BY <1>13, <3>2 DEF Issued
      <4>2. p.n \in 0..MaxRotations BY PairFields
      <4> QED BY <3>1, <4>1, <4>2
    <3>3. ASSUME NEW d \in Calls, GivenPair(d) PROVE request[d].answer.family # f
      <4>1. Keeps(r.pair) BY <1>2, <1>r DEF Keeps
      <4>2. SUFFICES ASSUME request[d].answer.family = f PROVE FALSE OBVIOUS
      <4>3. r.pair.n < request[d].answer.n
        BY <2>7, <3>3, <4>1, <4>2 DEF SessionInv, HandedAreNews
      <4>4. r.pair.n \in 0..MaxRotations BY <2>7, PairFields
      <4>5. request[d].answer.n # 0 BY <4>3, <4>4
      <4>6. request[d].kind = "switch"
        BY <3>3, <4>5 DEF SessionInv, HandedAreNews
      <4>7. d = c
        BY <1>2, <1>r, <2>7, <3>3, <4>6 DEF SessionInv, OneSwitch, GivenPair
      <4>8. request[c].at = "answered" BY <3>3, <4>7 DEF SessionInv, RequestsMakeSense, GivenPair
      <4> QED BY <1>2, <1>r, <4>8
    <3>4. family[f].n <= family[f].n + 1 BY <3>1
    <3> QED BY <2>4, <2>7, <3>2, <3>3, <3>4
  <2> QED BY <1>5, <2>3, <2>6, <2>7
<1>16. RefreshIsNewest(renewal)' /\ RefreshIsNewest(restore)' /\ StoredIsNewest'
  BY <1>2, <1>14, RefreshesStay DEF ForgetsNothing
<1> QED BY <1>8, <1>9, <1>10, <1>11, <1>15, <1>16 DEF SessionInv

\* A request that goes on without the answer it had: it waits, is refused, or is sent again.
Moved(c) ==
  /\ request[c] # Idle /\ request'[c] \in Request /\ request'[c] # Idle
  /\ request'[c].kind = request[c].kind /\ request'[c].org = request[c].org
  /\ request'[c].kind # "login" /\ request'[c].answer \notin Pair
  /\ request'[c].pair # NoPair
  /\ ~(request'[c].pair = Demo /\ ~request'[c].again /\ request'[c].answer = Refusal)

LEMMA RequestsMove ==
  ASSUME SessionInv, \A c \in Calls : request'[c] \in {request[c], Idle} \/ Moved(c)
  PROVE  RequestsMakeSense' /\ OneSwitch' /\ HandsNoMore
<1>1. RequestsMakeSense'
  BY DEF SessionInv, RequestsMakeSense, Moved
<1>2. OneSwitch' BY DEF SessionInv, OneSwitch, Moved
<1>3. HandsNoMore BY DEF HandsNoMore, GivenPair, HandedBefore, Moved
<1> QED BY <1>1, <1>2, <1>3

LEMMA RequestsComeLater ==
  ASSUME SessionInv, NEW c \in Calls, request[c] # Idle
  PROVE  ready /\ restore = Idle
BY DEF SessionInv, PhasesInOrder

LEMMA UnauthorizedKeeps ==
  ASSUME SessionInv, NEW c \in Calls, Unauthorized(c)
  PROVE  SessionInv'
<1> DEFINE r == request[c]
<1>1. /\ r # Idle /\ r.at = "answered" /\ r.answer = Refusal /\ r.kind # "login" /\ ~r.again
      /\ UNCHANGED <<family, expired, stored, held, shown, ready, restore,
                     unheard, switched>>
  BY DEF Unauthorized, AsksRenewal, serverVars, phoneVars
<1>2. /\ r \in Request /\ r.pair \in Tokens /\ ready /\ restore = Idle
      /\ held \in {NoPair, stored} /\ held \in Tokens
  BY <1>1, RequestFields, RequestsComeLater DEF SessionInv, PhasesInOrder, TypeOK
<1>3. /\ NoPair \notin Pair /\ Demo \notin Pair /\ Idle \notin Pair
      /\ Refusal \notin Pair /\ Idle # Refusal
      /\ Idle \notin Request \cup Refresh
  BY MarksAreNoValues DEF SessionInv
<1>4. r.pair # NoPair /\ r.pair # Demo
  BY <1>1 DEF SessionInv, RequestsMakeSense
<1>5. \/ /\ request' = [request EXCEPT ![c].at = "waiting"] /\ renewal' = renewal
      \/ /\ request' = [request EXCEPT ![c].at = "refused"] /\ renewal' = renewal
      \/ /\ held \notin {NoPair, r.pair} /\ renewal' = renewal
         /\ request' = [request EXCEPT ![c] = SentAgain(r, held)]
      \/ /\ held = r.pair /\ renewal = Idle
         /\ request' = [request EXCEPT ![c].at = "waiting"]
         /\ renewal' = [pair |-> held, answer |-> Idle]
  BY DEF Unauthorized
<1>6. \/ request' = [request EXCEPT ![c] = [r EXCEPT !.at = "waiting"]]
      \/ request' = [request EXCEPT ![c] = [r EXCEPT !.at = "refused"]]
      \/ /\ held \notin {NoPair, r.pair}
         /\ request' = [request EXCEPT ![c] = SentAgain(r, held)]
  BY <1>5
<1>7. Moved(c) /\ request'[c].pair \in {r.pair, stored}
  <2>1. request \in [Calls -> Request \cup {Idle}] BY DEF SessionInv, TypeOK
  <2>2. ASSUME NEW at \in {"waiting", "refused"},
               request' = [request EXCEPT ![c] = [r EXCEPT !.at = at]]
        PROVE  Moved(c) /\ request'[c].pair \in {r.pair, stored}
    <3>1. request'[c] = [r EXCEPT !.at = at] BY <2>1, <2>2
    <3>2. r \in Request BY <1>2
    <3>3. /\ request'[c] \in Request /\ request'[c].kind = r.kind
          /\ request'[c].org = r.org /\ request'[c].pair = r.pair
          /\ request'[c].answer = r.answer
      BY <3>1, <3>2 DEF Request
    <3> QED BY <1>1, <1>3, <1>4, <3>3 DEF Moved
  <2>3. CASE held \notin {NoPair, r.pair}
             /\ request' = [request EXCEPT ![c] = SentAgain(r, held)]
    <3>1. request'[c] = SentAgain(r, held) BY <2>1, <2>3
    <3>2. r \in Request /\ held \in Tokens BY <1>2
    <3>3. /\ request'[c] \in Request /\ request'[c].kind = r.kind
          /\ request'[c].org = r.org /\ request'[c].pair = held
          /\ request'[c].again = TRUE /\ request'[c].answer = Idle
      BY <3>1, <3>2 DEF Request, SentAgain
    <3> QED BY <1>1, <1>2, <1>3, <2>3, <3>3 DEF Moved
  <2> QED BY <1>6, <2>2, <2>3
<1>8. request' \in [Calls -> Request \cup {Idle}]
      /\ \A d \in Calls \ {c} : request'[d] = request[d]
  <2>1. request \in [Calls -> Request \cup {Idle}] BY DEF SessionInv, TypeOK
  <2> QED BY <1>6, <1>7, <2>1 DEF Moved
<1>9. RequestsMakeSense' /\ OneSwitch' /\ HandsNoMore
  BY <1>7, <1>8, RequestsMove
<1>10. renewal' = renewal
       \/ /\ renewal = Idle /\ held \in Pair /\ held = stored
          /\ renewal' \in Refresh /\ renewal' # Idle
          /\ renewal'.pair = held /\ renewal'.answer = Idle
  <2>1. CASE /\ held = r.pair /\ renewal = Idle
             /\ renewal' = [pair |-> held, answer |-> Idle]
    <3>1. held \in Pair /\ held = stored
      BY <1>2, <1>4, <2>1 DEF Tokens
    <3>2. renewal' \in Refresh BY <2>1, <3>1 DEF Refresh
    <3>3. renewal'.pair = held /\ renewal'.answer = Idle BY <2>1
    <3> QED BY <1>3, <2>1, <3>1, <3>2, <3>3
  <2> QED BY <1>5, <2>1
<1> HIDE DEF r
<1>11. TypeOK' BY <1>1, <1>8, <1>10 DEF SessionInv, TypeOK
<1>12. PhasesInOrder' BY <1>1, <1>2 DEF SessionInv, PhasesInOrder
<1>13. RowsStay BY <1>1, RowsUnchanged DEF SessionInv
<1>14. KeepsNoMore
  BY <1>1, <1>2, <1>3, <1>7, <1>8, <1>10 DEF KeepsNoMore, Keeps, Moved, r
<1>15. KeptAreIssued' /\ HandedAreNews' BY <1>9, <1>13, <1>14, NothingNew
<1>16. RefreshIsNewest(renewal)' /\ RefreshIsNewest(restore)' /\ StoredIsNewest'
  <2>1. CASE renewal' = renewal
    BY <1>1, <1>13, <2>1, RotationsStay, RefreshesStay DEF ForgetsNothing
  <2>2. CASE renewal' # renewal
    <3>1. /\ renewal = Idle /\ stored \in Pair /\ renewal' # Idle
          /\ renewal'.pair = stored /\ renewal'.answer = Idle
      BY <1>10, <2>2
    <3>2. Followed(stored.family) => Newest(stored)
      BY <1>2, <3>1 DEF SessionInv, StoredIsNewest, Succeeded
    <3>3. /\ Newest(stored)' <=> Newest(stored)
          /\ Followed(stored.family)' <=> Followed(stored.family)
      BY <1>1 DEF Newest, Followed
    <3>4. RefreshIsNewest(renewal)'
      BY <1>1, <1>3, <3>1, <3>2, <3>3 DEF RefreshIsNewest, Newest, Followed
    <3>5. RefreshIsNewest(restore)' BY <1>1, <1>2 DEF RefreshIsNewest
    <3>6. StoredIsNewest' BY <3>2, <3>3 DEF StoredIsNewest
    <3> QED BY <3>4, <3>5, <3>6
  <2> QED BY <2>1, <2>2
<1> QED BY <1>9, <1>11, <1>12, <1>15, <1>16 DEF SessionInv

\* What is stored is no pair, or one its family takes.
LEMMA SavedIsNewest ==
  ASSUME SessionInv, RowsStay, ForgetsNothing,
         renewal' \in {renewal, Idle}, restore' \in {restore, Idle},
         \/ UNCHANGED <<stored, renewal, restore>>
         \/ stored' \in Pair /\ Followed(stored.family)' => Newest(stored)'
  PROVE  RefreshIsNewest(renewal)' /\ RefreshIsNewest(restore)' /\ StoredIsNewest'
<1>1. \A p \in Pair : Newest(p)' <=> Newest(p) BY RotationsStay
<1>2. CASE UNCHANGED <<stored, renewal, restore>>
  BY <1>1, <1>2, RefreshesStay
<1>3. CASE stored' \in Pair /\ Followed(stored.family)' => Newest(stored)'
  <2>1. StoredIsNewest' BY <1>3 DEF StoredIsNewest
  <2>2. \A f : Followed(f)' => Followed(f) BY DEF Followed, ForgetsNothing
  <2>3. \A r \in {renewal, restore} : r # Idle => r.pair \in Pair
    BY RefreshFields DEF SessionInv
  <2>4. RefreshIsNewest(renewal)'
    BY <1>1, <2>2, <2>3 DEF SessionInv, RefreshIsNewest
  <2>5. RefreshIsNewest(restore)'
    BY <1>1, <2>2, <2>3 DEF SessionInv, RefreshIsNewest
  <2> QED BY <2>1, <2>4, <2>5
<1> QED BY <1>2, <1>3

LEMMA OverKeeps ==
  ASSUME SessionInv, NEW c \in Calls, Over(c),
         \/ UNCHANGED phoneVars \/ Save(NoPair)
         \/ request[c].answer \in Pair /\ Save(request[c].answer)
  PROVE  SessionInv'
<1> DEFINE a == request[c].answer
<1>1. /\ request[c] # Idle /\ request' = [request EXCEPT ![c] = Idle]
      /\ UNCHANGED <<family, expired, ready, restore, renewal, unheard, switched>>
      /\ \/ UNCHANGED <<stored, held, shown>>
         \/ stored' = NoPair /\ held' = NoPair /\ shown' = NoPair
         \/ a \in Pair /\ stored' = a /\ held' = a /\ shown' = a
  BY DEF Over, Save, phoneVars, serverVars
<1> HIDE DEF a
<1>2. ready BY <1>1, RequestsComeLater
<1>3. /\ request'[c] = Idle
      /\ \A d \in Calls \ {c} : request'[d] = request[d]
  BY <1>1 DEF SessionInv, TypeOK
<1>4. NoPair \notin Pair BY MarksAreNoValues DEF SessionInv
<1>5. RequestsMakeSense' /\ OneSwitch' /\ HandsNoMore BY <1>3, RequestsMove
<1>6. TypeOK' BY <1>1, <1>3 DEF SessionInv, TypeOK, Tokens
<1>7. PhasesInOrder' BY <1>1, <1>2, <1>3 DEF SessionInv, PhasesInOrder
<1>8. RowsStay BY <1>1, RowsUnchanged DEF SessionInv
<1>9. CASE UNCHANGED <<stored, held, shown>> \/ stored' = NoPair
  <2>1. KeepsNoMore BY <1>1, <1>3, <1>4, <1>9 DEF KeepsNoMore, Keeps
  <2>2. KeptAreIssued' /\ HandedAreNews' BY <1>5, <1>8, <2>1, NothingNew
  <2>3. RefreshIsNewest(renewal)' /\ RefreshIsNewest(restore)' /\ StoredIsNewest'
    BY <1>1, <1>4, <1>8, <1>9, SavedIsNewest DEF ForgetsNothing
  <2> QED BY <1>5, <1>6, <1>7, <2>2, <2>3 DEF SessionInv
<1>10. ASSUME NEW b \in Pair, b = a, stored' = b
       PROVE  SessionInv'
  <2>1. GivenPair(c) BY <1>1, <1>10 DEF GivenPair, a
  <2>2. /\ Newest(b)
        /\ \A d \in Calls : GivenPair(d) /\ request[d].answer.family = b.family => d = c
    BY <1>10, <2>1 DEF SessionInv, HandedAreNews, a
  <2>3. b.family \in Families /\ b.n \in 0..MaxRotations BY PairFields
  <2>4. Newest(b)' /\ Issued(b)'
    <3>1. family[b.family].n \in 0..MaxRotations
      BY <2>2, <2>3, RowFields DEF SessionInv, Newest
    <3> QED BY <1>1, <2>2, <2>3, <3>1 DEF Newest, Issued
  <2>5. \A p \in Pair : Keeps(p)' => Keeps(p) \/ p = b
    BY <1>1, <1>3, <1>10 DEF Keeps
  <2>6. \A p \in Pair : Issued(p)' <=> Issued(p) BY <1>8, RotationsStay
  <2>7. KeptAreIssued'
    BY <2>4, <2>5, <2>6 DEF SessionInv, KeptAreIssued
  <2>8. HandedAreNews'
    <3>1. ASSUME NEW d \in Calls, GivenPair(d)'
          PROVE  /\ d # c /\ GivenPair(d) /\ request'[d] = request[d]
                 /\ request[d].answer \in Pair /\ request[d].answer.family # b.family
      BY <1>3, <2>2, <3>1 DEF GivenPair
    <3>2. \A d \in Calls : GivenPair(d)' => (Newest(request[d].answer)' <=> Newest(request[d].answer))
      BY <1>1, <3>1 DEF Newest
    <3> QED BY <2>5, <3>1, <3>2 DEF SessionInv, HandedAreNews
  <2>9. RefreshIsNewest(renewal)' /\ RefreshIsNewest(restore)' /\ StoredIsNewest'
    <3>1. Newest(stored)' BY <1>10, <2>4 DEF Newest
    <3> QED BY <1>1, <1>8, <1>10, <3>1, SavedIsNewest DEF ForgetsNothing
  <2> QED BY <1>5, <1>6, <1>7, <2>7, <2>8, <2>9 DEF SessionInv
<1> QED BY <1>1, <1>9, <1>10

LEMMA RequestEndKeeps ==
  ASSUME SessionInv, NEW c \in Calls, HandedOver(c) \/ LoggedOut(c) \/ Loaded(c)
  PROVE  SessionInv'
BY OverKeeps DEF HandedOver, LoggedOut, Loaded

-----------------------------------------------------------------------------

\* What a refresh does to the rows leaves what is kept and handed in order.
LEMMA RefreshedRows ==
  ASSUME SessionInv, NEW b \in Pair, Keeps(b), NEW a, RowsAfterRefresh(b, a),
         request' = request, \A p \in Pair : Keeps(p)' => Keeps(p) \/ p = a
  PROVE  /\ family' \in [Families -> Row \cup {Idle}]
         /\ unheard \subseteq unheard' /\ unheard' \subseteq Families
         /\ KeptAreIssued' /\ HandedAreNews'
         /\ \A s \in Pair : Newest(s) /\ s.family \notin unheard' =>
              Newest(s)' \/ (a \in Pair /\ a.family = s.family)
         /\ a \in Pair => family'[a.family] # Idle /\ a.n = family'[a.family].n
<1>1. b.family \in Families /\ b.n \in 0..MaxRotations BY PairFields
<1>2. unheard \subseteq unheard' /\ unheard' \subseteq Families
  BY <1>1 DEF RowsAfterRefresh, SessionInv, TypeOK
<1>3. HandsNoMore BY DEF HandsNoMore, GivenPair, HandedBefore
<1>4. CASE RowsStay /\ a \notin Pair
  <2>1. KeepsNoMore BY <1>4 DEF KeepsNoMore
  <2>2. KeptAreIssued' /\ HandedAreNews' BY <1>3, <1>4, <2>1, NothingNew
  <2>3. \A s \in Pair : Newest(s)' <=> Newest(s) BY <1>4, RotationsStay
  <2> QED BY <1>2, <1>4, <2>2, <2>3 DEF RowsStay
<1>5. CASE /\ Newest(b) /\ Rotates(b.family, b.n + 1)
           /\ \/ a \in Pair /\ a.family = b.family /\ a.n = b.n + 1
              \/ a \notin Pair /\ b.family \in unheard'
  <2>1. family[b.family].n = b.n /\ b.n <= b.n + 1 BY <1>1, <1>5 DEF Newest
  <2>2. ASSUME NEW d \in Calls, GivenPair(d), request[d].answer.family = b.family PROVE FALSE
    <3>1. request[d].answer.n = b.n
      BY <1>5, <2>2 DEF SessionInv, HandedAreNews, Newest
    <3>2. b.n < request[d].answer.n BY <2>2 DEF SessionInv, HandedAreNews
    <3> QED BY <1>1, <3>1, <3>2
  <2>3. \A p \in Pair : Keeps(p)' => Keeps(p) \/ (p.family = b.family /\ p.n <= b.n + 1)
    BY <1>1, <1>5
  <2>4. KeptAreIssued' /\ HandedAreNews'
    BY <1>1, <1>3, <1>5, <2>1, <2>2, <2>3, NewRotation DEF HandsNoMore
  <2>5. \A s \in Pair : s.family # b.family /\ Newest(s) => Newest(s)'
    BY <1>5, PairFields DEF Newest, Rotates
  <2>6. a \in Pair => family'[a.family] # Idle /\ a.n = family'[a.family].n
    BY <1>5 DEF Rotates
  <2>7. family' \in [Families -> Row \cup {Idle}] BY <1>5 DEF Rotates
  <2> QED BY <1>2, <1>5, <2>4, <2>5, <2>6, <2>7
<1> QED BY <1>1, <1>4, <1>5 DEF RowsAfterRefresh

LEMMA CarryRenewalKeeps ==
  ASSUME SessionInv, CarryRenewal
  PROVE  SessionInv'
<1>1. PICK a : RenewalCarried(a) BY RenewalIsCarried
<1>2. renewal # Idle BY <1>1 DEF RenewalCarried
<1>3. PICK b \in Pair : b = renewal.pair BY <1>2, RefreshPair
<1>4. renewal \in Refresh /\ Keeps(b) BY <1>2, <1>3, RefreshPair
<1>5. /\ renewal.answer = Idle /\ a \in Answers /\ renewal' = [renewal EXCEPT !.answer = a]
      /\ RowsAfterRefresh(b, a)
      /\ switched' = IF a \in Pair THEN switched \ {b.family} ELSE switched
      /\ UNCHANGED <<expired, stored, held, shown, ready, restore, request>>
  BY <1>1, <1>3 DEF RenewalCarried, phoneVars
<1>6. renewal' \in Refresh /\ renewal'.pair = b /\ renewal'.answer = a
  BY <1>3, <1>4, <1>5 DEF Refresh
<1>7. Idle \notin Refresh /\ Idle \notin Answers /\ Idle \notin Pair
  BY MarksAreNoValues DEF SessionInv, Answers
<1>8. ready /\ restore = Idle BY <1>2 DEF SessionInv, PhasesInOrder
<1>9. \A p \in Pair : Keeps(p)' => Keeps(p) \/ p = a
  BY <1>2, <1>3, <1>5, <1>6, <1>8 DEF Keeps
<1>10. /\ family' \in [Families -> Row \cup {Idle}]
       /\ unheard \subseteq unheard' /\ unheard' \subseteq Families
       /\ KeptAreIssued' /\ HandedAreNews'
       /\ \A s \in Pair : Newest(s) /\ s.family \notin unheard' =>
            Newest(s)' \/ (a \in Pair /\ a.family = s.family)
       /\ a \in Pair => family'[a.family] # Idle /\ a.n = family'[a.family].n
  BY <1>4, <1>5, <1>9, RefreshedRows
<1>11. TypeOK' BY <1>5, <1>6, <1>10 DEF SessionInv, TypeOK
<1>12. PhasesInOrder' BY <1>5, <1>8 DEF SessionInv, PhasesInOrder
<1>13. RequestsMakeSense' BY <1>5 DEF SessionInv, RequestsMakeSense
<1>14. OneSwitch' BY <1>5 DEF SessionInv, OneSwitch
<1>15. RefreshIsNewest(renewal)' BY <1>5, <1>6, <1>7, <1>10 DEF RefreshIsNewest, Newest
<1>16. RefreshIsNewest(restore)' BY <1>5, <1>8 DEF RefreshIsNewest
<1>17. StoredIsNewest'
  <2>1. SUFFICES ASSUME stored \in Pair, stored.family \notin unheard' \cup switched',
                        ~(a \in Pair /\ a.family = stored.family)
                 PROVE  Newest(stored)'
    BY <1>5, <1>6, <1>7 DEF StoredIsNewest, Followed, Succeeded
  <2>2. a \in Pair => a.family = b.family
    BY <1>5 DEF RowsAfterRefresh
  <2>3. Followed(stored.family) BY <1>5, <1>10, <2>1, <2>2 DEF Followed
  <2>4. Newest(stored)
    BY <1>5, <1>7, <1>8, <2>1, <2>3 DEF SessionInv, StoredIsNewest, Succeeded
  <2>5. PICK s \in Pair : s = stored BY <2>1
  <2>6. Newest(s)' BY <1>10, <2>1, <2>4, <2>5
  <2> QED BY <1>5, <2>5, <2>6 DEF Newest
<1> QED BY <1>10, <1>11, <1>12, <1>13, <1>14, <1>15, <1>16, <1>17 DEF SessionInv

LEMMA CarryRestoreKeeps ==
  ASSUME SessionInv, CarryRestore
  PROVE  SessionInv'
<1>1. PICK a : RestoreCarried(a) BY RestoreIsCarried
<1>2. restore # Idle BY <1>1 DEF RestoreCarried
<1>3. PICK b \in Pair : b = restore.pair BY <1>2, RefreshPair
<1>4. restore \in Refresh /\ Keeps(b) BY <1>2, <1>3, RefreshPair
<1>5. /\ restore.answer = Idle /\ a \in Answers /\ restore' = [restore EXCEPT !.answer = a]
      /\ RowsAfterRefresh(b, a)
      /\ switched' = IF a \in Pair THEN switched \ {b.family} ELSE switched
      /\ UNCHANGED <<expired, stored, held, shown, ready, renewal, request>>
  BY <1>1, <1>3 DEF RestoreCarried, phoneVars
<1>6. restore' \in Refresh /\ restore'.pair = b /\ restore'.answer = a
  BY <1>3, <1>4, <1>5 DEF Refresh
<1>7. Idle \notin Refresh /\ Idle \notin Answers /\ Idle \notin Pair
  BY MarksAreNoValues DEF SessionInv, Answers
<1>8. ~ready /\ renewal = Idle BY <1>2 DEF SessionInv, PhasesInOrder
<1>9. \A p \in Pair : Keeps(p)' => Keeps(p) \/ p = a
  BY <1>2, <1>3, <1>5, <1>6, <1>8 DEF Keeps
<1>10. /\ family' \in [Families -> Row \cup {Idle}]
       /\ unheard \subseteq unheard' /\ unheard' \subseteq Families
       /\ KeptAreIssued' /\ HandedAreNews'
       /\ \A s \in Pair : Newest(s) /\ s.family \notin unheard' =>
            Newest(s)' \/ (a \in Pair /\ a.family = s.family)
       /\ a \in Pair => family'[a.family] # Idle /\ a.n = family'[a.family].n
  BY <1>4, <1>5, <1>9, RefreshedRows
<1>11. TypeOK' BY <1>5, <1>6, <1>10 DEF SessionInv, TypeOK
<1>12. PhasesInOrder' BY <1>5, <1>8 DEF SessionInv, PhasesInOrder
<1>13. RequestsMakeSense' BY <1>5 DEF SessionInv, RequestsMakeSense
<1>14. OneSwitch' BY <1>5 DEF SessionInv, OneSwitch
<1>15. RefreshIsNewest(restore)' BY <1>5, <1>6, <1>7, <1>10 DEF RefreshIsNewest, Newest
<1>16. RefreshIsNewest(renewal)' BY <1>5, <1>8 DEF RefreshIsNewest
<1>17. StoredIsNewest'
  <2>1. SUFFICES ASSUME stored \in Pair, stored.family \notin unheard' \cup switched',
                        ~(a \in Pair /\ a.family = stored.family)
                 PROVE  Newest(stored)'
    BY <1>5, <1>6, <1>7 DEF StoredIsNewest, Followed, Succeeded
  <2>2. a \in Pair => a.family = b.family
    BY <1>5 DEF RowsAfterRefresh
  <2>3. Followed(stored.family) BY <1>5, <1>10, <2>1, <2>2 DEF Followed
  <2>4. Newest(stored)
    BY <1>5, <1>7, <1>8, <2>1, <2>3 DEF SessionInv, StoredIsNewest, Succeeded
  <2>5. PICK s \in Pair : s = stored BY <2>1
  <2>6. Newest(s)' BY <1>10, <2>1, <2>4, <2>5
  <2> QED BY <1>5, <2>5, <2>6 DEF Newest
<1> QED BY <1>10, <1>11, <1>12, <1>13, <1>14, <1>15, <1>16, <1>17 DEF SessionInv

LEMMA RenewalDoneKeeps ==
  ASSUME SessionInv, RenewalDone
  PROVE  SessionInv'
<1> DEFINE a == renewal.answer
<1>1. /\ renewal # Idle /\ a # Idle /\ renewal' = Idle
      /\ UNCHANGED <<family, expired, ready, restore, unheard, switched>>
      /\ \/ /\ a \in Pair /\ stored' = a /\ held' = a /\ shown' = a
            /\ request' = [c \in Calls |-> IF Waiting(c) THEN SentAgain(request[c], a)
                                          ELSE request[c]]
         \/ /\ a \notin Pair /\ stored' = NoPair /\ held' = NoPair /\ shown' = NoPair
            /\ request' = [c \in Calls |-> IF Waiting(c) THEN [request[c] EXCEPT !.at = "refused"]
                                          ELSE request[c]]
  BY DEF RenewalDone, Save, serverVars
<1> HIDE DEF a
<1>2. ready /\ restore = Idle BY <1>1 DEF SessionInv, PhasesInOrder
<1>3. /\ NoPair \notin Pair /\ Demo \notin Pair /\ Idle \notin Pair
      /\ Idle # Refusal /\ Idle \notin Request
  BY MarksAreNoValues DEF SessionInv
<1>4. ASSUME NEW c \in Calls
      PROVE  \/ request'[c] = request[c]
             \/ Moved(c) /\ request'[c].pair \in {request[c].pair, stored'}
  <2> DEFINE r == request[c]
             q == request'[c]
  <2>1. CASE ~Waiting(c) BY <1>1, <2>1
  <2>2. CASE Waiting(c)
    <3>1. r # Idle /\ r.at = "waiting" BY <2>2 DEF Waiting
    <3>2. /\ r.kind # "login" /\ r.answer \notin Pair /\ r.pair # NoPair
          /\ ~(r.pair = Demo /\ ~r.again /\ r.answer = Refusal)
      BY <3>1 DEF SessionInv, RequestsMakeSense
    <3>3. r \in Request BY <3>1, RequestFields DEF SessionInv
    <3>4. CASE a \in Pair /\ stored' = a /\ q = SentAgain(r, a)
      <4>1. /\ q \in Request /\ q.kind = r.kind /\ q.org = r.org
            /\ q.pair = a /\ q.again = TRUE /\ q.answer = Idle
        BY <3>3, <3>4 DEF SentAgain, Request, Tokens
      <4> QED BY <1>3, <3>1, <3>2, <3>4, <4>1 DEF Moved
    <3>5. CASE q = [r EXCEPT !.at = "refused"]
      <4>1. /\ q \in Request /\ q.kind = r.kind /\ q.org = r.org
            /\ q.pair = r.pair /\ q.again = r.again /\ q.answer = r.answer
        BY <3>3, <3>5 DEF Request
      <4> QED BY <1>3, <3>1, <3>2, <4>1 DEF Moved
    <3> QED BY <1>1, <2>2, <3>4, <3>5
  <2> QED BY <2>1, <2>2
<1>5. RequestsMakeSense' /\ OneSwitch' /\ HandsNoMore
  BY <1>4, RequestsMove
<1>6. request' \in [Calls -> Request \cup {Idle}]
  <2>1. request' = [c \in Calls |-> request'[c]] BY <1>1
  <2>2. \A c \in Calls : request'[c] \in Request \cup {Idle}
    BY <1>4 DEF SessionInv, TypeOK, Moved
  <2> QED BY <2>1, <2>2
<1>7. TypeOK' BY <1>1, <1>6 DEF SessionInv, TypeOK, Tokens
<1>8. PhasesInOrder' BY <1>1, <1>2 DEF SessionInv, PhasesInOrder
<1>9. RowsStay BY <1>1, RowsUnchanged DEF SessionInv
<1>10. KeepsNoMore
  <2>1. a \in Pair => Keeps(a) BY <1>1 DEF Keeps, a
  <2>2. ASSUME NEW p \in Pair, Keeps(p)' PROVE Keeps(p)
    <3>1. p = stored' \/ \E c \in Calls : request'[c] # Idle /\ request'[c].pair = p
      BY <1>1, <1>2, <2>2 DEF Keeps
    <3>2. CASE p = stored' BY <1>1, <1>3, <2>1, <3>2
    <3>3. ASSUME NEW c \in Calls, request'[c] # Idle, request'[c].pair = p, p # stored'
          PROVE  Keeps(p)
      <4>1. request[c] # Idle /\ request[c].pair = p BY <1>4, <3>3 DEF Moved
      <4> QED BY <4>1 DEF Keeps
    <3> QED BY <3>1, <3>2, <3>3
  <2> QED BY <2>2 DEF KeepsNoMore
<1>11. KeptAreIssued' /\ HandedAreNews' BY <1>5, <1>9, <1>10, NothingNew
<1>12. RefreshIsNewest(renewal)' /\ RefreshIsNewest(restore)' /\ StoredIsNewest'
  <2>1. ASSUME stored' \in Pair, Followed(stored.family)' PROVE Newest(stored)'
    <3>1. stored' = a /\ a \in Pair BY <1>1, <1>3, <2>1
    <3>2. Followed(a.family) BY <1>1, <2>1, <3>1 DEF Followed
    <3>3. Newest(a) BY <1>1, <3>1, <3>2 DEF SessionInv, RefreshIsNewest, a
    <3> QED BY <1>1, <3>1, <3>3 DEF Newest
  <2> QED BY <1>1, <1>9, <2>1, SavedIsNewest DEF ForgetsNothing
<1> QED BY <1>5, <1>7, <1>8, <1>11, <1>12 DEF SessionInv

LEMMA RestoreKeeps ==
  ASSUME SessionInv, Restore
  PROVE  SessionInv'
<1>1. /\ ~ready /\ restore = Idle
      /\ UNCHANGED <<family, expired, stored, held, renewal, request, unheard, switched>>
      /\ \/ shown' = stored /\ ready' = TRUE /\ restore' = restore
         \/ /\ stored \in Pair /\ restore' = [pair |-> stored, answer |-> Idle]
            /\ shown' = shown /\ ready' = ready
  BY DEF Restore, Fresh, serverVars
<1>2. renewal = Idle /\ held = NoPair /\ \A c \in Calls : request[c] = Idle
  BY <1>1 DEF SessionInv, PhasesInOrder
<1>3. Idle \notin Pair /\ Idle \notin Refresh
  BY MarksAreNoValues DEF SessionInv
<1>4. restore' = Idle
      \/ /\ stored \in Pair /\ restore' \in Refresh /\ restore' # Idle
         /\ restore'.pair = stored /\ restore'.answer = Idle /\ ready' = FALSE
  <2>1. CASE stored \in Pair /\ restore' = [pair |-> stored, answer |-> Idle]
             /\ ready' = ready
    <3>1. restore' \in Refresh BY <2>1 DEF Refresh
    <3>2. restore'.pair = stored /\ restore'.answer = Idle BY <2>1
    <3>3. ready' = FALSE BY <1>1, <2>1 DEF SessionInv, TypeOK
    <3> QED BY <1>3, <2>1, <3>1, <3>2, <3>3
  <2> QED BY <1>1, <2>1
<1>5. TypeOK' BY <1>1, <1>4 DEF SessionInv, TypeOK
<1>6. PhasesInOrder' BY <1>1, <1>2, <1>4 DEF SessionInv, PhasesInOrder
<1>7. RequestsMakeSense' BY <1>1 DEF SessionInv, RequestsMakeSense
<1>8. OneSwitch' BY <1>1 DEF SessionInv, OneSwitch
<1>9. RowsStay BY <1>1, RowsUnchanged DEF SessionInv
<1>10. HandsNoMore BY <1>1 DEF HandsNoMore, GivenPair, HandedBefore
<1>11. KeepsNoMore BY <1>1, <1>3, <1>4 DEF KeepsNoMore, Keeps
<1>12. KeptAreIssued' /\ HandedAreNews' BY <1>9, <1>10, <1>11, NothingNew
<1>13. stored \in Pair /\ Followed(stored.family) => Newest(stored)
  BY <1>1, <1>2 DEF SessionInv, StoredIsNewest, Succeeded
<1>14. StoredIsNewest' BY <1>1, <1>13 DEF StoredIsNewest, Followed, Newest
<1>15. RefreshIsNewest(renewal)' BY <1>1, <1>2 DEF RefreshIsNewest
<1>16. RefreshIsNewest(restore)'
  BY <1>1, <1>3, <1>4, <1>13 DEF RefreshIsNewest, Followed, Newest
<1> QED BY <1>5, <1>6, <1>7, <1>8, <1>12, <1>14, <1>15, <1>16 DEF SessionInv

LEMMA RestoreDoneKeeps ==
  ASSUME SessionInv, RestoreDone
  PROVE  SessionInv'
<1> DEFINE a == restore.answer
<1>1. /\ restore # Idle /\ restore' = Idle /\ ready' = TRUE
      /\ UNCHANGED <<family, expired, renewal, request, unheard, switched>>
      /\ \/ a \in Pair /\ stored' = a /\ held' = a /\ shown' = a
         \/ stored' = NoPair /\ held' = NoPair /\ shown' = NoPair
  BY DEF RestoreDone, Save, serverVars
<1> HIDE DEF a
<1>2. NoPair \notin Pair BY MarksAreNoValues DEF SessionInv
<1>3. TypeOK' BY <1>1 DEF SessionInv, TypeOK, Tokens
<1>4. PhasesInOrder' BY <1>1 DEF SessionInv, PhasesInOrder
<1>5. RequestsMakeSense' BY <1>1 DEF SessionInv, RequestsMakeSense
<1>6. OneSwitch' BY <1>1 DEF SessionInv, OneSwitch
<1>7. RowsStay BY <1>1, RowsUnchanged DEF SessionInv
<1>8. HandsNoMore BY <1>1 DEF HandsNoMore, GivenPair, HandedBefore
<1>9. KeepsNoMore BY <1>1, <1>2 DEF KeepsNoMore, Keeps, a
<1>10. KeptAreIssued' /\ HandedAreNews' BY <1>7, <1>8, <1>9, NothingNew
<1>11. RefreshIsNewest(renewal)' /\ RefreshIsNewest(restore)' /\ StoredIsNewest'
  <2>1. ASSUME stored' \in Pair, Followed(stored.family)' PROVE Newest(stored)'
    <3>1. stored' = a /\ a \in Pair BY <1>1, <1>2, <2>1
    <3>2. Followed(a.family) BY <1>1, <2>1, <3>1 DEF Followed
    <3>3. Newest(a) BY <1>1, <3>1, <3>2 DEF SessionInv, RefreshIsNewest, a
    <3> QED BY <1>1, <3>1, <3>3 DEF Newest
  <2> QED BY <1>1, <1>7, <2>1, SavedIsNewest DEF ForgetsNothing
<1> QED BY <1>3, <1>4, <1>5, <1>6, <1>10, <1>11 DEF SessionInv

LEMMA EnterDemoKeeps ==
  ASSUME SessionInv, EnterDemo
  PROVE  SessionInv'
<1>1. /\ ready /\ stored' = Demo /\ held' = Demo /\ shown' = Demo
      /\ UNCHANGED <<family, expired, ready, restore, renewal, request, unheard, switched>>
  BY DEF EnterDemo, SignInOffered, SignInShown, Save, serverVars
<1>2. Demo \notin Pair BY MarksAreNoValues DEF SessionInv
<1>3. TypeOK' BY <1>1 DEF SessionInv, TypeOK, Tokens
<1>4. PhasesInOrder' BY <1>1 DEF SessionInv, PhasesInOrder
<1>5. RequestsMakeSense' BY <1>1 DEF SessionInv, RequestsMakeSense
<1>6. OneSwitch' BY <1>1 DEF SessionInv, OneSwitch
<1>7. RowsStay BY <1>1, RowsUnchanged DEF SessionInv
<1>8. HandsNoMore BY <1>1 DEF HandsNoMore, GivenPair, HandedBefore
<1>9. KeepsNoMore BY <1>1, <1>2 DEF KeepsNoMore, Keeps
<1>10. KeptAreIssued' /\ HandedAreNews' BY <1>7, <1>8, <1>9, NothingNew
<1>11. RefreshIsNewest(renewal)' /\ RefreshIsNewest(restore)' /\ StoredIsNewest'
  BY <1>1, <1>2, <1>7, SavedIsNewest DEF ForgetsNothing
<1> QED BY <1>3, <1>4, <1>5, <1>6, <1>10, <1>11 DEF SessionInv

LEMMA KillKeeps ==
  ASSUME SessionInv, Kill
  PROVE  SessionInv'
<1>1. /\ held' = NoPair /\ shown' = NoPair /\ ready' = FALSE
      /\ restore' = Idle /\ renewal' = Idle /\ request' = [c \in Calls |-> Idle]
      /\ unheard' = unheard \cup {a.family : a \in OnTheWay}
      /\ UNCHANGED <<family, expired, stored, switched>>
  BY DEF Kill, serverVars
<1>2. unheard \subseteq unheard' /\ unheard' \subseteq Families
  BY <1>1, PairFields DEF OnTheWay, SessionInv, TypeOK
<1>3. TypeOK' BY <1>1, <1>2 DEF SessionInv, TypeOK, Tokens
<1>4. PhasesInOrder' BY <1>1 DEF PhasesInOrder
<1>5. RequestsMakeSense' BY <1>1 DEF RequestsMakeSense
<1>6. OneSwitch' BY <1>1 DEF OneSwitch
<1>7. RowsStay BY <1>1, RowsUnchanged DEF SessionInv
<1>8. HandsNoMore BY <1>1 DEF HandsNoMore, GivenPair
<1>9. KeepsNoMore BY <1>1 DEF KeepsNoMore, Keeps
<1>10. KeptAreIssued' /\ HandedAreNews' BY <1>7, <1>8, <1>9, NothingNew
<1>11. StoredIsNewest'
  <2>1. SUFFICES ASSUME stored \in Pair, Followed(stored.family)' PROVE Newest(stored)
    BY <1>1 DEF StoredIsNewest, Newest
  <2>2. Followed(stored.family) /\ stored.family \notin {a.family : a \in OnTheWay}
    BY <1>1, <2>1 DEF Followed
  <2>3. ~Succeeded(renewal, stored.family) /\ ~Succeeded(restore, stored.family)
    BY <2>2 DEF Succeeded, OnTheWay
  <2> QED BY <2>1, <2>2, <2>3 DEF SessionInv, StoredIsNewest
<1>12. RefreshIsNewest(renewal)' /\ RefreshIsNewest(restore)' BY <1>1 DEF RefreshIsNewest
<1> QED BY <1>3, <1>4, <1>5, <1>6, <1>10, <1>11, <1>12 DEF SessionInv

\* A step of the server alone that leaves the rotations.
LEMMA ServerStepKeeps ==
  ASSUME SessionInv, RowsStay, expired' \in [Families -> 0..(MaxRotations + 1)],
         UNCHANGED <<stored, held, shown, ready, restore, renewal, request,
                     unheard, switched>>
  PROVE  SessionInv'
<1>1. TypeOK' BY DEF SessionInv, TypeOK, RowsStay
<1>2. PhasesInOrder' BY DEF SessionInv, PhasesInOrder
<1>3. RequestsMakeSense' BY DEF SessionInv, RequestsMakeSense
<1>4. OneSwitch' BY DEF SessionInv, OneSwitch
<1>5. HandsNoMore BY DEF HandsNoMore, GivenPair, HandedBefore
<1>6. KeepsNoMore BY DEF KeepsNoMore, Keeps
<1>7. KeptAreIssued' /\ HandedAreNews' BY <1>5, <1>6, NothingNew
<1>8. RefreshIsNewest(renewal)' /\ RefreshIsNewest(restore)' /\ StoredIsNewest'
  BY RotationsStay, RefreshesStay DEF ForgetsNothing
<1> QED BY <1>1, <1>2, <1>3, <1>4, <1>7, <1>8 DEF SessionInv

LEMMA EndSessionsKeeps ==
  ASSUME SessionInv, EndSessions
  PROVE  SessionInv'
<1>1. /\ family' = [f \in Families |-> IF Opened(f) THEN [family[f] EXCEPT !.live = FALSE]
                                      ELSE Idle]
      /\ UNCHANGED <<expired, stored, held, shown, ready, restore, renewal, request,
                     unheard, switched>>
  BY DEF EndSessions, phoneVars
<1>2. ASSUME NEW f \in Families, family[f] # Idle
      PROVE  family'[f] \in Row /\ family'[f] # Idle /\ family'[f].n = family[f].n
  <2>1. family[f] \in Row BY <1>2, RowFields DEF SessionInv
  <2>2. family'[f] = [family[f] EXCEPT !.live = FALSE] BY <1>1, <1>2 DEF Opened
  <2>3. family'[f] \in Row /\ family'[f].n = family[f].n BY <2>1, <2>2 DEF Row
  <2> QED BY <2>3, MarksAreNoValues DEF SessionInv
<1>3. \A f \in Families : family[f] = Idle => family'[f] = Idle BY <1>1 DEF Opened
<1>4. family' = [f \in Families |-> family'[f]] BY <1>1
<1>5. RowsStay BY <1>2, <1>3, <1>4 DEF RowsStay
<1> QED BY <1>1, <1>5, ServerStepKeeps DEF SessionInv, TypeOK

LEMMA ExpireKeeps ==
  ASSUME SessionInv, NEW f \in Families, Expire(f)
  PROVE  SessionInv'
<1>1. /\ family[f] # Idle /\ expired' = [expired EXCEPT ![f] = family[f].n + 1]
      /\ UNCHANGED <<family, stored, held, shown, ready, restore, renewal, request,
                     unheard, switched>>
  BY DEF Expire, phoneVars, Opened
<1>2. family[f].n \in 0..MaxRotations BY <1>1, RowFields DEF SessionInv
<1>3. MaxRotations \in Nat BY RotationsAreBounded DEF SessionInv
<1>4. family[f].n + 1 \in 0..(MaxRotations + 1) BY <1>2, <1>3
<1>5. expired' \in [Families -> 0..(MaxRotations + 1)]
  BY <1>1, <1>4 DEF SessionInv, TypeOK
<1>6. RowsStay BY <1>1, RowsUnchanged DEF SessionInv
<1> QED BY <1>1, <1>5, <1>6, ServerStepKeeps

-----------------------------------------------------------------------------
LEMMA SessionStart == Init => SessionInv
<1> SUFFICES ASSUME Init PROVE SessionInv OBVIOUS
<1>1. TypeOK
  <2>1. 0 \in 0..(MaxRotations + 1) BY RotationsAreBounded
  <2>2. /\ family \in [Families -> Row \cup {Idle}]
        /\ request \in [Calls -> Request \cup {Idle}]
    BY DEF Init
  <2>3. expired \in [Families -> 0..(MaxRotations + 1)] BY <2>1 DEF Init
  <2>4. stored \in Tokens /\ held \in Tokens /\ shown \in Tokens
    BY DEF Init, Tokens
  <2> QED BY <2>2, <2>3, <2>4 DEF Init, TypeOK
<1>2. NoPair \notin Pair BY MarksAreNoValues
<1>3. PhasesInOrder /\ RequestsMakeSense /\ OneSwitch
  BY DEF Init, PhasesInOrder, RequestsMakeSense, OneSwitch
<1>4. KeptAreIssued BY <1>2 DEF Init, KeptAreIssued, Keeps
<1>5. HandedAreNews BY DEF Init, HandedAreNews, GivenPair
<1>6. RefreshIsNewest(renewal) /\ RefreshIsNewest(restore) /\ StoredIsNewest
  BY <1>2 DEF Init, RefreshIsNewest, StoredIsNewest
<1> QED BY <1>1, <1>3, <1>4, <1>5, <1>6 DEF SessionInv

LEMMA SessionStep == SessionInv /\ [Next]_(vars) => SessionInv'
<1> SUFFICES ASSUME SessionInv, [Next]_(vars) PROVE SessionInv' OBVIOUS
<1>1. CASE UNCHANGED vars
  <2>1. UNCHANGED <<family, expired, stored, held, shown, ready, restore, renewal, request,
                    unheard, switched>>
    BY <1>1 DEF vars
  <2>2. RowsStay BY <2>1, RowsUnchanged DEF SessionInv
  <2> QED BY <2>1, <2>2, ServerStepKeeps DEF SessionInv, TypeOK
<1>2. ASSUME NEW c \in Calls,
             SubmitLogin(c) \/ LoadScreen(c) \/ ChooseOrganization(c) \/ Logout(c)
      PROVE  SessionInv'
  BY <1>2, PressKeeps
<1>3. ASSUME NEW c \in Calls, RequestStep(c) PROVE SessionInv'
  BY <1>3, CarryRequestKeeps, UnauthorizedKeeps, RequestEndKeeps DEF RequestStep
<1>4. CASE RenewalStep BY <1>4, CarryRenewalKeeps, RenewalDoneKeeps DEF RenewalStep
<1>5. CASE RestoreStep
  BY <1>5, RestoreKeeps, CarryRestoreKeeps, RestoreDoneKeeps DEF RestoreStep
<1>6. CASE EnterDemo BY <1>6, EnterDemoKeeps
<1>7. CASE Kill BY <1>7, KillKeeps
<1>8. CASE EndSessions BY <1>8, EndSessionsKeeps
<1>9. ASSUME NEW f \in Families, Expire(f) PROVE SessionInv' BY <1>9, ExpireKeeps
<1> QED BY <1>1, <1>2, <1>3, <1>4, <1>5, <1>6, <1>7, <1>8, <1>9 DEF Next

-----------------------------------------------------------------------------
LEMMA SessionAlways == Spec => []SessionInv
<1> QED BY SessionStart, SessionStep, PTL DEF Spec

\* Rows, tokens and requests keep their types: a retry carries a pair that was issued or a
\* mark, a refresh always a pair, and a row never rotates past the bound.
THEOREM SessionTypeCorrect == Spec => []TypeOK
<1>1. SessionInv => TypeOK BY DEF SessionInv
<1> QED BY <1>1, SessionAlways, PTL

\* What the two refreshes of the phone may do to the rows, at their service.
LEMMA RefreshEndsUnheard ==
  ASSUME SessionInv, NEW r \in {renewal, restore}, r # Idle, r.answer = Idle,
         NEW f \in Families, Opened(f), family[f].live,
         NEW out \in ServeRefresh(r.pair), family' = out.family, ~family'[f].live
  PROVE  f \in unheard \cup switched
<1> DEFINE g == r.pair.family
           row == family[g]
<1>0. TypeOK /\ RefreshIsNewest(r) BY DEF SessionInv
<1>1. r \in Refresh /\ r.pair \in Pair BY <1>0, RefreshFields
<1>2. g \in Families /\ r.pair.n \in 0..MaxRotations BY <1>1, PairFields
<1>3. family' # family BY DEF Opened
<1>4. row.live
  BY <1>3 DEF ServeRefresh, Unchanged
<1>5. CASE r.pair.n # row.n
  <2>1. out = Ended(g, Refusal) BY <1>4, <1>5 DEF ServeRefresh
  <2>2. family' = Ended(g, Refusal).family BY <2>1
  <2>3. Issued(r.pair)
    <3>1. Keeps(r.pair) BY DEF Keeps
    <3> QED BY <3>1, <1>1 DEF SessionInv, KeptAreIssued
  <2>4. row # Idle BY <2>3 DEF Issued
  <2>5. \A h \in Families \ {g} : family'[h] = family[h]
    BY <1>0, <1>2, <2>2, <2>4, EndedRow
  <2>6. f = g BY <2>5
  <2>7. ~Newest(r.pair) BY <1>5 DEF Newest
  <2>8. ~Followed(g) BY <1>0, <2>7 DEF RefreshIsNewest
  <2> QED BY <2>6, <2>8 DEF Followed
<1>6. CASE r.pair.n = row.n
  <2>1. out \in Rotated(g, row.org) BY <1>4, <1>6 DEF ServeRefresh
  <2>2. PICK n, o : out = Handed(g, n, o) BY <2>1 DEF Rotated
  <2>3. family' = [family EXCEPT ![g] = [n |-> n, org |-> o, live |-> TRUE]]
    BY <2>2 DEF Handed
  <2>4. family \in [Families -> Row \cup {Idle}] BY <1>0 DEF TypeOK
  <2>5. CASE f = g BY <2>3, <2>4, <2>5, <1>2
  <2>6. CASE f # g BY <2>3, <2>4, <2>6, <1>2
  <2> QED BY <2>5, <2>6
<1> QED BY <1>5, <1>6

LEMMA RenewalRevokes ==
  ASSUME SessionInv, CarryRenewal, NEW f \in Families, Replayed(f)
  PROVE  f \in unheard \cup switched
<1>1. renewal # Idle /\ renewal.answer = Idle BY DEF CarryRenewal
<1>2. \/ \E out \in ServeRefresh(renewal.pair) : family' = out.family
      \/ UNCHANGED family
  BY DEF CarryRenewal, Carry
<1>3. Opened(f) /\ family[f].live /\ ~family'[f].live BY DEF Replayed
<1>4. PICK out \in ServeRefresh(renewal.pair) : family' = out.family BY <1>2, <1>3
<1> QED BY <1>1, <1>3, <1>4, RefreshEndsUnheard

LEMMA RestoreRevokes ==
  ASSUME SessionInv, CarryRestore, NEW f \in Families, Replayed(f)
  PROVE  f \in unheard \cup switched
<1>1. restore # Idle /\ restore.answer = Idle BY DEF CarryRestore
<1>2. \/ \E out \in ServeRefresh(restore.pair) : family' = out.family
      \/ UNCHANGED family
  BY DEF CarryRestore, Carry
<1>3. Opened(f) /\ family[f].live /\ ~family'[f].live BY DEF Replayed
<1>4. PICK out \in ServeRefresh(restore.pair) : family' = out.family BY <1>2, <1>3
<1> QED BY <1>1, <1>3, <1>4, RefreshEndsUnheard

LEMMA StepRevokesUnheard ==
  ASSUME SessionInv, [Next]_(vars), NEW f \in Families, Replayed(f)
  PROVE  f \in unheard \cup switched
<1>1. family' # family BY DEF Replayed
<1>2. ~(UNCHANGED renewal /\ UNCHANGED restore) BY DEF Replayed
<1>3. CarryRenewal \/ CarryRestore
  <2>1. ASSUME NEW c \in Calls,
               SubmitLogin(c) \/ LoadScreen(c) \/ ChooseOrganization(c) \/ Logout(c)
        PROVE  FALSE
    BY <2>1, <1>1 DEF SubmitLogin, LoadScreen, ChooseOrganization, Logout, Ask,
                      serverVars
  <2>2. ASSUME NEW c \in Calls, RequestStep(c) PROVE FALSE
    BY <2>2, <1>1, <1>2 DEF RequestStep, CarryRequest, Unauthorized, HandedOver,
                      LoggedOut, Loaded, Over, serverVars
  <2>3. ~RenewalDone /\ ~Restore /\ ~RestoreDone
    BY <1>1 DEF RenewalDone, Restore, RestoreDone, serverVars
  <2>4. ~EnterDemo /\ ~Kill /\ ~EndSessions
    BY <1>1, <1>2 DEF EnterDemo, Kill, EndSessions, serverVars
  <2>5. \A g \in Families : ~Expire(g) BY <1>1 DEF Expire
  <2>6. ~UNCHANGED vars BY <1>1 DEF vars
  <2> QED BY <2>1, <2>2, <2>3, <2>4, <2>5, <2>6 DEF Next, RenewalStep, RestoreStep
<1> QED BY <1>3, RenewalRevokes, RestoreRevokes

\* However many requests share a renewal, and whatever is lost, killed or revoked meanwhile,
\* neither refresh of the phone presents a token its family has left behind, unless an answer
\* that rotated it was lost or a switch of organisation rotated it last.
THEOREM ReplayedOnlyUnheard == Spec => ReplayNeedsALostAnswer
<1>1. SessionInv /\ [Next]_(vars)
      => [\A f \in Families : Replayed(f) => f \in unheard \cup switched]_(vars)
  BY StepRevokesUnheard
<1> QED BY <1>1, SessionAlways, PTL DEF Spec, ReplayNeedsALostAnswer

-----------------------------------------------------------------------------
(* The demo. *)

\* The records of d are legal, and it holds nothing of calls after the n-th.
Legal(d) == OneClockInADay(d) /\ \A e \in Employees : KioskRecordIsLegal(d, e)
MadeBy(d, n) ==
  /\ d.sequence <= n
  /\ \A k \in Own : \A i \in CallIds : d.own[k][i] # None => i <= n

\* What a call's writes are based on: the seed it has to write first, or what it saw.
Base(r) == IF r.seeds THEN InitialState(r.day) ELSE r.saw
CopyIsSound(r) ==
  /\ r.day <= today
  /\ IF r.seeds THEN r.saw # None => r.saw.seedDate < r.day
                ELSE r.saw # None /\ r.saw.seedDate = r.day
  /\ r.writes # None =>
       /\ Legal(r.writes) /\ MadeBy(r.writes, made) /\ r.writes.seedDate = r.day
       /\ Facts(Base(r)) \cup r.tells \subseteq Facts(r.writes)

DemoInv ==
  /\ DemoTypeOK
  /\ document # None => Legal(document) /\ MadeBy(document, made) /\ document.seedDate <= today
  /\ \A c \in Slots : slot[c] # None => CopyIsSound(slot[c])
  /\ ConfirmedIsStored

-----------------------------------------------------------------------------
(* Documents. *)

LEMMA DocumentFields ==
  ASSUME NEW d \in Document
  PROVE  /\ d.seedDate \in Days /\ d.sequence \in 0..MaxCalls
         /\ d.sections \in [SectionIds -> Section \cup {None}]
         /\ d.state \in States /\ d.events \in Seq(Event)
         /\ d.kiosk \in KioskMode \cup {None}
         /\ d.kioskState \in [Employees -> States]
         /\ d.kioskEvents \in [Employees -> Seq(Event)]
         /\ d.photos \subseteq CallIds
         /\ d.evidence \in [CallIds -> CallIds \cup {None}]
         /\ d.own \in [Own -> [CallIds -> {"PENDING", "WITHDRAWN", None}]]
         /\ d.queue \in [Queues -> {"PENDING", "APPROVED", "REJECTED"}]
         /\ d.flags \subseteq Flags
         /\ d.shifts \in [ShiftIds -> {None} \cup SUBSET Employees]
BY DEF Document

\* q shows all that d does.
Shows(d, q) ==
  /\ \A i \in DOMAIN d.events : \E j \in DOMAIN q.events : q.events[j].id = d.events[i].id
  /\ \A e \in Employees : \A i \in DOMAIN d.kioskEvents[e] :
       \E j \in DOMAIN q.kioskEvents[e] : q.kioskEvents[e][j].id = d.kioskEvents[e][i].id
  /\ d.photos \subseteq q.photos /\ d.sequence <= q.sequence /\ d.flags \subseteq q.flags
  /\ \A s \in SectionIds : d.sections[s] # None => q.sections[s] # None
  /\ \A k \in Own : \A i \in CallIds :
       /\ d.own[k][i] # None => q.own[k][i] # None
       /\ d.own[k][i] = "WITHDRAWN" => q.own[k][i] = "WITHDRAWN"
  /\ \A r \in Queues : d.queue[r] # "PENDING" => q.queue[r] # "PENDING"
  /\ \A x \in ShiftIds : d.shifts[x] # None => q.shifts[x] # None

\* The facts of a document, by kind.
EventFacts(d) == {<<"event", d.events[i].id>> : i \in DOMAIN d.events}
KioskFacts(d) ==
  UNION {{<<"event", d.kioskEvents[e][i].id>> : i \in DOMAIN d.kioskEvents[e]} : e \in Employees}
PhotoFacts(d) == {<<"photo", p>> : p \in d.photos}
EmployeeFacts(d) == {<<"employee", i>> : i \in 1..d.sequence}
ShowroomFacts(d) == {<<"showroom", s>> : s \in {t \in SectionIds : d.sections[t] # None}}
OwnFacts(d) == {<<"own", i>> : i \in {j \in CallIds : \E k \in Own : d.own[k][j] # None}}
WithdrawnFacts(d) ==
  {<<"withdrawn", i>> : i \in {j \in CallIds : \E k \in Own : d.own[k][j] = "WITHDRAWN"}}
DecidedFacts(d) == {<<q, 0>> : q \in {r \in Queues : d.queue[r] # "PENDING"}}
FlagFacts(d) == {<<f, 0>> : f \in d.flags}
ShiftFacts(d) == {<<"shift", x>> : x \in {y \in ShiftIds : d.shifts[y] # None}}

LEMMA FactsByKind ==
  ASSUME NEW d
  PROVE  Facts(d) = EventFacts(d) \cup KioskFacts(d) \cup PhotoFacts(d) \cup EmployeeFacts(d)
                      \cup ShowroomFacts(d) \cup OwnFacts(d) \cup WithdrawnFacts(d)
                      \cup DecidedFacts(d) \cup FlagFacts(d) \cup ShiftFacts(d)
BY DEF Facts, EventFacts, KioskFacts, PhotoFacts, EmployeeFacts, ShowroomFacts, OwnFacts,
       WithdrawnFacts, DecidedFacts, FlagFacts, ShiftFacts
\* A fact of any kind is shown by a document that has what it is of.
LEMMA FactsShown ==
  ASSUME NEW d
  PROVE  /\ \A i \in DOMAIN d.events : <<"event", d.events[i].id>> \in Facts(d)
         /\ \A e \in Employees : \A i \in DOMAIN d.kioskEvents[e] :
              <<"event", d.kioskEvents[e][i].id>> \in Facts(d)
         /\ \A p \in d.photos : <<"photo", p>> \in Facts(d)
         /\ \A s \in SectionIds : d.sections[s] # None => <<"showroom", s>> \in Facts(d)
         /\ \A k \in Own : \A i \in CallIds :
              d.own[k][i] # None => <<"own", i>> \in Facts(d)
         /\ \A r \in Queues : d.queue[r] # "PENDING" => <<r, 0>> \in Facts(d)
         /\ \A f \in d.flags : <<f, 0>> \in Facts(d)
         /\ \A x \in ShiftIds : d.shifts[x] # None => <<"shift", x>> \in Facts(d)
<1>1. \A i \in DOMAIN d.events : <<"event", d.events[i].id>> \in EventFacts(d) BY DEF EventFacts
<1>2. \A e \in Employees : \A i \in DOMAIN d.kioskEvents[e] :
        <<"event", d.kioskEvents[e][i].id>> \in KioskFacts(d)
  BY DEF KioskFacts
<1>3. \A p \in d.photos : <<"photo", p>> \in PhotoFacts(d) BY DEF PhotoFacts
<1>4. \A s \in SectionIds : d.sections[s] # None => <<"showroom", s>> \in ShowroomFacts(d)
  BY DEF ShowroomFacts
<1>5. \A k \in Own : \A i \in CallIds : d.own[k][i] # None => <<"own", i>> \in OwnFacts(d)
  BY DEF OwnFacts
<1>6. \A r \in Queues : d.queue[r] # "PENDING" => <<r, 0>> \in DecidedFacts(d) BY DEF DecidedFacts
<1>7. \A f \in d.flags : <<f, 0>> \in FlagFacts(d) BY DEF FlagFacts
<1>8. \A x \in ShiftIds : d.shifts[x] # None => <<"shift", x>> \in ShiftFacts(d) BY DEF ShiftFacts
<1> QED BY <1>1, <1>2, <1>3, <1>4, <1>5, <1>6, <1>7, <1>8, FactsByKind

LEMMA ShownFacts ==
  ASSUME NEW d \in Document, NEW q \in Document, Shows(d, q)
  PROVE  Facts(d) \subseteq Facts(q)
<1>1. EventFacts(d) \subseteq EventFacts(q) /\ KioskFacts(d) \subseteq KioskFacts(q)
  BY DEF Shows, EventFacts, KioskFacts
<1>2. PhotoFacts(d) \subseteq PhotoFacts(q) /\ FlagFacts(d) \subseteq FlagFacts(q)
  BY DEF Shows, PhotoFacts, FlagFacts
<1>3. EmployeeFacts(d) \subseteq EmployeeFacts(q)
  <2>1. d.sequence <= q.sequence BY DEF Shows
  <2>2. d.sequence \in Nat /\ q.sequence \in Nat BY DocumentFields, BoundsAreNat
  <2>3. 1..d.sequence \subseteq 1..q.sequence BY <2>1, <2>2
  <2> QED BY <2>3 DEF EmployeeFacts
<1>4. ShowroomFacts(d) \subseteq ShowroomFacts(q) /\ ShiftFacts(d) \subseteq ShiftFacts(q)
  BY DEF Shows, ShowroomFacts, ShiftFacts
<1>5. OwnFacts(d) \subseteq OwnFacts(q) /\ WithdrawnFacts(d) \subseteq WithdrawnFacts(q)
  BY DEF Shows, OwnFacts, WithdrawnFacts
<1>6. DecidedFacts(d) \subseteq DecidedFacts(q) BY DEF Shows, DecidedFacts
<1> QED BY <1>1, <1>2, <1>3, <1>4, <1>5, <1>6, FactsByKind

LEMMA Prepended ==
  ASSUME NEW S, NEW new \in S, NEW old \in Seq(S)
  PROVE  /\ <<new>> \o old \in Seq(S)
         /\ Len(<<new>> \o old) = Len(old) + 1 /\ Len(old) \in Nat
         /\ DOMAIN (<<new>> \o old) = 1..(Len(old) + 1) /\ DOMAIN old = 1..Len(old)
         /\ (<<new>> \o old)[1] = new
         /\ \A i \in 1..Len(old) : (<<new>> \o old)[i + 1] = old[i]
         /\ \A i \in 1..(Len(old) + 1) : i # 1 => i - 1 \in 1..Len(old) /\ (<<new>> \o old)[i] = old[i - 1]
<1> DEFINE more == <<new>> \o old
<1>1. <<new>> \in Seq(S) /\ Len(<<new>>) = 1 /\ <<new>>[1] = new OBVIOUS
<1>2. Len(old) \in Nat /\ DOMAIN old = 1..Len(old) OBVIOUS
<1>3. /\ more \in Seq(S) /\ Len(more) = 1 + Len(old)
      /\ \A i \in 1..(1 + Len(old)) : more[i] = IF i <= 1 THEN <<new>>[i] ELSE old[i - 1]
  BY <1>1, ConcatProperties
<1> HIDE DEF more
<1>4. DOMAIN more = 1..(Len(old) + 1) BY <1>2, <1>3
<1>5. 1 \in 1..(1 + Len(old)) BY <1>2
<1>6. more[1] = new BY <1>1, <1>3, <1>5
<1>7. \A i \in 1..(Len(old) + 1) : i # 1 => i - 1 \in 1..Len(old) /\ more[i] = old[i - 1]
  BY <1>2, <1>3
<1>8. \A i \in 1..Len(old) : i + 1 \in 1..(Len(old) + 1) /\ i + 1 # 1 /\ (i + 1) - 1 = i BY <1>2
<1>9. \A i \in 1..Len(old) : more[i + 1] = old[i] BY <1>7, <1>8
<1>10. Len(more) = Len(old) + 1 BY <1>2, <1>3
<1> QED BY <1>2, <1>3, <1>4, <1>6, <1>7, <1>9, <1>10 DEF more

\* A legal record of the kiosk, by its length.
KioskRecord(d, e) ==
  LET done == d.kioskEvents[e] IN
  \/ Len(done) = 0 /\ d.kioskState[e] = "NOT_STARTED"
  \/ Len(done) = 1 /\ done[1].action = "CLOCK_IN" /\ d.kioskState[e] = "WORKING"
  \/ /\ Len(done) = 2 /\ done[1].action = "CLOCK_OUT" /\ done[2].action = "CLOCK_IN"
     /\ d.kioskState[e] = "COMPLETED"

LEMMA ShortLengths ==
  ASSUME NEW n \in Nat
  PROVE  /\ 1 \in 1..n /\ 2 \notin 1..n => n = 1
         /\ 2 \in 1..n /\ 3 \notin 1..n => n = 2
OBVIOUS

LEMMA KioskRecordByLength ==
  ASSUME NEW d \in Document, NEW e \in Employees
  PROVE  KioskRecordIsLegal(d, e) <=> KioskRecord(d, e)
<1> DEFINE done == d.kioskEvents[e]
           acts == [i \in DOMAIN done |-> done[i].action]
<1>1. done \in Seq(Event) BY DocumentFields
<1>2. Len(done) \in Nat /\ DOMAIN done = 1..Len(done) BY <1>1
<1>3. acts = <<>> <=> Len(done) = 0
  <2>1. CASE Len(done) = 0 BY <1>2, <2>1
  <2>2. CASE Len(done) # 0
    <3>1. 1 \in DOMAIN acts BY <1>2, <2>2
    <3>2. 1 \notin DOMAIN <<>> OBVIOUS
    <3> QED BY <3>1, <3>2, <2>2
  <2> QED BY <2>1, <2>2
<1>4. acts = <<"CLOCK_IN">> <=> Len(done) = 1 /\ done[1].action = "CLOCK_IN"
  <2>1. ASSUME acts = <<"CLOCK_IN">> PROVE Len(done) = 1 /\ done[1].action = "CLOCK_IN"
    <3>1. DOMAIN acts = 1..1 /\ acts[1] = "CLOCK_IN" BY <2>1
    <3>2. 1 \in 1..Len(done) /\ 2 \notin 1..Len(done) BY <3>1, <1>2
    <3>3. Len(done) = 1 BY <3>2, <1>2, ShortLengths
    <3> QED BY <3>1, <3>2, <3>3, <1>2
  <2>2. ASSUME Len(done) = 1, done[1].action = "CLOCK_IN" PROVE acts = <<"CLOCK_IN">>
    BY <2>2, <1>2
  <2> QED BY <2>1, <2>2
<1>5. acts = <<"CLOCK_OUT", "CLOCK_IN">>
      <=> Len(done) = 2 /\ done[1].action = "CLOCK_OUT" /\ done[2].action = "CLOCK_IN"
  <2>1. ASSUME acts = <<"CLOCK_OUT", "CLOCK_IN">>
        PROVE  Len(done) = 2 /\ done[1].action = "CLOCK_OUT" /\ done[2].action = "CLOCK_IN"
    <3>1. DOMAIN acts = 1..2 /\ acts[1] = "CLOCK_OUT" /\ acts[2] = "CLOCK_IN" BY <2>1
    <3>2. 1 \in 1..Len(done) /\ 2 \in 1..Len(done) /\ 3 \notin 1..Len(done) BY <3>1, <1>2
    <3>3. Len(done) = 2 BY <3>2, <1>2, ShortLengths
    <3> QED BY <3>1, <3>2, <3>3, <1>2
  <2>2. ASSUME Len(done) = 2, done[1].action = "CLOCK_OUT", done[2].action = "CLOCK_IN"
        PROVE  acts = <<"CLOCK_OUT", "CLOCK_IN">>
    BY <2>2, <1>2
  <2> QED BY <2>1, <2>2
<1>6. Len(done) = 1 /\ done[1].action = "CLOCK_IN" => ReportStatus(d, e) = "WORKING"
  BY <1>2 DEF ReportStatus, Did
<1>7. Len(done) = 2 /\ done[1].action = "CLOCK_OUT" => ReportStatus(d, e) = "ON_TIME"
  BY <1>2 DEF ReportStatus, Did
<1> HIDE DEF acts
<1>8. KioskRecordIsLegal(d, e)
      <=> \/ acts = <<>> /\ d.kioskState[e] = "NOT_STARTED"
          \/ acts = <<"CLOCK_IN">> /\ d.kioskState[e] = "WORKING" /\ ReportStatus(d, e) = "WORKING"
          \/ /\ acts = <<"CLOCK_OUT", "CLOCK_IN">> /\ d.kioskState[e] = "COMPLETED"
             /\ ReportStatus(d, e) = "ON_TIME"
  BY DEF acts, KioskRecordIsLegal
<1> QED BY <1>3, <1>4, <1>5, <1>6, <1>7, <1>8 DEF KioskRecord

-----------------------------------------------------------------------------
(* What a route leaves of a document. *)

\* q is what a call of this day makes of d, and what its answer tells is in it.
Grown(d, q, tells) ==
  /\ q \in Document /\ Legal(q) /\ MadeBy(q, made + 1) /\ q.seedDate = d.seedDate
  /\ Facts(d) \cup tells \subseteq Facts(q)

\* What a route may start from.
Fit(d) == d \in Document /\ Legal(d) /\ MadeBy(d, made)

SameRecords(d, q) ==
  q.events = d.events /\ q.kioskEvents = d.kioskEvents /\ q.kioskState = d.kioskState

LEMMA SameAreLegal ==
  ASSUME NEW d, NEW q, SameRecords(d, q), Legal(d)
  PROVE  Legal(q)
<1>1. OneClockInADay(q) BY DEF SameRecords, Legal, OneClockInADay
<1>2. ASSUME NEW e \in Employees PROVE KioskRecordIsLegal(q, e)
  BY DEF SameRecords, Legal, KioskRecordIsLegal, ReportStatus, Did
<1> QED BY <1>1, <1>2 DEF Legal

\* A route that leaves the attendance alone.
LEMMA Grows ==
  ASSUME DemoTypeOK, NEW d, Fit(d), NEW q \in Document, q.seedDate = d.seedDate,
         SameRecords(d, q), Shows(d, q), MadeBy(q, made + 1),
         NEW tells, tells \subseteq Facts(q)
  PROVE  Grown(d, q, tells)
<1>1. Facts(d) \subseteq Facts(q) BY ShownFacts DEF Fit
<1>2. Legal(q) BY SameAreLegal DEF Fit
<1> QED BY <1>1, <1>2 DEF Grown

LEMMA SameShows ==
  ASSUME NEW d, NEW q, SameRecords(d, q)
  PROVE  /\ \A i \in DOMAIN d.events : \E j \in DOMAIN q.events : q.events[j].id = d.events[i].id
         /\ \A e \in Employees : \A i \in DOMAIN d.kioskEvents[e] :
              \E j \in DOMAIN q.kioskEvents[e] : q.kioskEvents[e][j].id = d.kioskEvents[e][i].id
BY DEF SameRecords

LEMMA MadeMore ==
  ASSUME NEW d \in Document, NEW n \in Nat, MadeBy(d, n)
  PROVE  MadeBy(d, n + 1)
<1>1. d.sequence \in Nat /\ CallIds \subseteq Nat
  BY DocumentFields, BoundsAreNat DEF CallIds
<1>2. d.sequence <= n + 1 BY <1>1 DEF MadeBy
<1>3. ASSUME NEW k \in Own, NEW i \in CallIds, d.own[k][i] # None PROVE i <= n + 1
  <2>1. i <= n BY <1>3 DEF MadeBy
  <2> QED BY <2>1, <1>1
<1> QED BY <1>2, <1>3 DEF MadeBy

LEMMA StillMade ==
  ASSUME DemoTypeOK, NEW d, Fit(d), NEW q, q.sequence = d.sequence, q.own = d.own
  PROVE  MadeBy(q, made + 1)
<1>1. made \in Nat BY BoundsAreNat DEF DemoTypeOK
<1>2. d \in Document /\ MadeBy(d, made) BY DEF Fit
<1>3. MadeBy(d, made + 1) BY <1>1, <1>2, MadeMore
<1>4. MadeBy(q, made + 1) BY <1>3 DEF MadeBy
<1> QED BY <1>4

LEMMA PhotoGrows ==
  ASSUME DemoTypeOK, NEW d, Fit(d), NEW n \in CallIds
  PROVE  /\ Grown(d, PhotoStored(d, n), {<<"photo", n>>})
         /\ MadeBy(PhotoStored(d, n), made)
<1> DEFINE q == PhotoStored(d, n)
<1>0. d \in Document BY DEF Fit
<1>2. /\ q \in Document /\ q.seedDate = d.seedDate /\ SameRecords(d, q)
      /\ q.photos = d.photos \cup {n}
      /\ q.sequence = d.sequence /\ q.flags = d.flags /\ q.sections = d.sections
      /\ q.own = d.own /\ q.queue = d.queue /\ q.shifts = d.shifts
  BY <1>0 DEF PhotoStored, Document, SameRecords
<1> HIDE DEF q
<1>3. Shows(d, q)
  BY <1>2, SameShows, DocumentFields, <1>0, BoundsAreNat DEF Shows
<1>4. MadeBy(q, made + 1) BY <1>2, StillMade
<1>5. {<<"photo", n>>} \subseteq Facts(q) BY <1>2, FactsShown
<1>6. Grown(d, q, {<<"photo", n>>}) BY <1>2, <1>3, <1>4, <1>5, Grows
<1>7. MadeBy(q, made) BY <1>2 DEF Fit, MadeBy
<1> QED BY <1>6, <1>7 DEF q

LEMMA OwnGrows ==
  ASSUME DemoTypeOK, NEW d, Fit(d), NEW k \in Own, made < MaxCalls
  PROVE  Grown(d, OwnCreated(d, k, made + 1), {<<"own", made + 1>>})
<1> DEFINE q == OwnCreated(d, k, made + 1)
<1>0. d \in Document BY DEF Fit
<1>1. made + 1 \in CallIds BY BoundsAreNat DEF DemoTypeOK, CallIds
<1>7. "PENDING" # None BY NoneIsNoValue
<1>8. d.own[k][made + 1] = None /\ None # "WITHDRAWN"
  BY <1>1, BoundsAreNat, NoneIsNoValue DEF Fit, MadeBy, DemoTypeOK
<1>2. /\ q \in Document /\ q.seedDate = d.seedDate /\ SameRecords(d, q)
      /\ q.own[k][made + 1] = "PENDING"
      /\ \A j \in Own : \A i \in CallIds : j # k \/ i # made + 1 => q.own[j][i] = d.own[j][i]
      /\ q.photos = d.photos /\ q.sequence = d.sequence /\ q.flags = d.flags
      /\ q.sections = d.sections /\ q.queue = d.queue /\ q.shifts = d.shifts
  BY <1>0, <1>1 DEF OwnCreated, Document, SameRecords
<1> HIDE DEF q
<1>9. \A j \in Own : \A n \in CallIds :
        /\ d.own[j][n] # None => q.own[j][n] # None
        /\ d.own[j][n] = "WITHDRAWN" => q.own[j][n] = "WITHDRAWN"
  BY <1>1, <1>2, <1>7, <1>8
<1>3. Shows(d, q)
  BY <1>2, SameShows, DocumentFields, <1>0, <1>9, BoundsAreNat DEF Shows
<1>4. MadeBy(q, made + 1)
  <2>1. MadeBy(d, made + 1) BY StillMade
  <2>2. made + 1 <= made + 1 BY BoundsAreNat DEF DemoTypeOK
  <2> QED BY <2>1, <2>2, <1>2, <1>1 DEF MadeBy
<1>5. {<<"own", made + 1>>} \subseteq Facts(q) BY <1>1, <1>2, <1>7, FactsShown
<1>6. Grown(d, q, {<<"own", made + 1>>}) BY <1>2, <1>3, <1>4, <1>5, Grows
<1> QED BY <1>6 DEF q

LEMMA WithdrawnGrows ==
  ASSUME DemoTypeOK, NEW d, Fit(d), NEW k \in Own, NEW i \in 1..made
  PROVE  Grown(d, OwnWithdrawn(d, k, i), {})
<1> DEFINE q == OwnWithdrawn(d, k, i)
<1>0. d \in Document BY DEF Fit
<1>1. i \in CallIds BY BoundsAreNat DEF DemoTypeOK, CallIds
<1>7. "WITHDRAWN" # None BY NoneIsNoValue
<1>2. /\ q \in Document /\ q.seedDate = d.seedDate /\ SameRecords(d, q)
      /\ q.own[k][i] = IF d.own[k][i] = None THEN None ELSE "WITHDRAWN"
      /\ \A j \in Own : \A n \in CallIds : j # k \/ n # i => q.own[j][n] = d.own[j][n]
      /\ q.photos = d.photos /\ q.sequence = d.sequence /\ q.flags = d.flags
      /\ q.sections = d.sections /\ q.queue = d.queue /\ q.shifts = d.shifts
  BY <1>0, <1>1 DEF OwnWithdrawn, Document, SameRecords
<1> HIDE DEF q
<1>9. \A j \in Own : \A n \in CallIds :
        /\ d.own[j][n] # None => q.own[j][n] # None
        /\ d.own[j][n] = "WITHDRAWN" => q.own[j][n] = "WITHDRAWN"
  BY <1>1, <1>2, <1>7
<1>10. /\ SameRecords(d, q) /\ q.photos = d.photos /\ q.sequence = d.sequence
       /\ q.flags = d.flags /\ q.sections = d.sections /\ q.queue = d.queue /\ q.shifts = d.shifts
  BY <1>2
<1>3. Shows(d, q)
  BY <1>10, SameShows, DocumentFields, <1>0, <1>9, BoundsAreNat DEF Shows
<1>4. MadeBy(q, made + 1)
  <2>1. MadeBy(d, made + 1) BY StillMade
  <2> QED BY <2>1, <1>2, <1>1 DEF MadeBy
<1>6. Grown(d, q, {}) BY <1>2, <1>3, <1>4, Grows
<1> QED BY <1>6 DEF q

LEMMA FlagsGrow ==
  ASSUME DemoTypeOK, NEW d, Fit(d), NEW flags \in SUBSET Flags
  PROVE  Grown(d, Flagged(d, flags), {<<f, 0>> : f \in flags})
<1> DEFINE q == Flagged(d, flags)
<1>0. d \in Document BY DEF Fit
<1>2. /\ q \in Document /\ q.seedDate = d.seedDate /\ SameRecords(d, q)
      /\ q.flags = d.flags \cup flags
      /\ q.photos = d.photos /\ q.sequence = d.sequence /\ q.sections = d.sections
      /\ q.own = d.own /\ q.queue = d.queue /\ q.shifts = d.shifts
  BY <1>0 DEF Flagged, Document, SameRecords
<1> HIDE DEF q
<1>3. Shows(d, q)
  BY <1>2, SameShows, DocumentFields, <1>0, BoundsAreNat DEF Shows
<1>4. MadeBy(q, made + 1) BY <1>2, StillMade
<1>5. {<<f, 0>> : f \in flags} \subseteq Facts(q) BY <1>2, FactsShown
<1>6. Grown(d, q, {<<f, 0>> : f \in flags}) BY <1>2, <1>3, <1>4, <1>5, Grows
<1> QED BY <1>6 DEF q

LEMMA DecisionGrows ==
  ASSUME DemoTypeOK, NEW d, Fit(d), NEW r \in Queues,
         NEW decision \in {"APPROVED", "REJECTED"}
  PROVE  Grown(d, Decided(d, r, decision), {<<r, 0>>})
<1> DEFINE q == Decided(d, r, decision)
<1>0. d \in Document BY DEF Fit
<1>2. /\ q \in Document /\ q.seedDate = d.seedDate /\ SameRecords(d, q)
      /\ q.queue = [d.queue EXCEPT ![r] = decision]
      /\ q.queue[r] # "PENDING"
      /\ q.photos = d.photos /\ q.sequence = d.sequence /\ q.flags = d.flags
      /\ q.sections = d.sections /\ q.own = d.own /\ q.shifts = d.shifts
  BY <1>0 DEF Decided, Document, SameRecords
<1> HIDE DEF q
<1>3. Shows(d, q)
  BY <1>2, SameShows, DocumentFields, <1>0, BoundsAreNat DEF Shows
<1>4. MadeBy(q, made + 1) BY <1>2, StillMade
<1>5. {<<r, 0>>} \subseteq Facts(q) BY <1>2, FactsShown
<1>6. Grown(d, q, {<<r, 0>>}) BY <1>2, <1>3, <1>4, <1>5, Grows
<1> QED BY <1>6 DEF q

LEMMA EmployeeGrows ==
  ASSUME DemoTypeOK, NEW d, Fit(d), made < MaxCalls
  PROVE  Grown(d, EmployeeCreated(d), {})
<1> DEFINE q == EmployeeCreated(d)
<1>0. d \in Document BY DEF Fit
<1>1. d.sequence \in Nat /\ d.sequence + 1 \in 0..MaxCalls
  BY <1>0, DocumentFields, BoundsAreNat DEF Fit, MadeBy, DemoTypeOK
<1>2. /\ q \in Document /\ q.seedDate = d.seedDate /\ SameRecords(d, q)
      /\ q.sequence = d.sequence + 1
      /\ q.photos = d.photos /\ q.flags = d.flags /\ q.sections = d.sections
      /\ q.own = d.own /\ q.queue = d.queue /\ q.shifts = d.shifts
  BY <1>0, <1>1 DEF EmployeeCreated, Document, SameRecords
<1> HIDE DEF q
<1>3. Shows(d, q)
  BY <1>2, SameShows, DocumentFields, <1>0, BoundsAreNat DEF Shows
<1>4. MadeBy(q, made + 1)
  <2>1. MadeBy(d, made + 1) BY StillMade
  <2>2. d.sequence + 1 <= made + 1 BY <1>1, BoundsAreNat DEF Fit, MadeBy, DemoTypeOK
  <2> QED BY <2>1, <2>2, <1>2 DEF MadeBy
<1>6. Grown(d, q, {}) BY <1>2, <1>3, <1>4, Grows
<1> QED BY <1>6 DEF q

LEMMA SectionGrows ==
  ASSUME DemoTypeOK, NEW d, Fit(d), NEW s \in SectionIds, NEW section \in Section
  PROVE  Grown(d, [d EXCEPT !.sections = [d.sections EXCEPT ![s] = section]], {<<"showroom", s>>})
<1> DEFINE q == [d EXCEPT !.sections = [d.sections EXCEPT ![s] = section]]
<1>0. d \in Document BY DEF Fit
<1>7. section # None BY NoneIsNoValue
<1>2. /\ q \in Document /\ q.seedDate = d.seedDate /\ SameRecords(d, q)
      /\ q.sections = [d.sections EXCEPT ![s] = section]
      /\ q.photos = d.photos /\ q.sequence = d.sequence /\ q.flags = d.flags
      /\ q.own = d.own /\ q.queue = d.queue /\ q.shifts = d.shifts
  BY <1>0 DEF Document, SameRecords
<1> HIDE DEF q
<1>3. Shows(d, q)
  BY <1>2, SameShows, DocumentFields, <1>0, <1>7, BoundsAreNat DEF Shows
<1>4. MadeBy(q, made + 1) BY <1>2, StillMade
<1>5. {<<"showroom", s>>} \subseteq Facts(q) BY <1>0, <1>2, <1>7, FactsShown, DocumentFields
<1>6. Grown(d, q, {<<"showroom", s>>}) BY <1>2, <1>3, <1>4, <1>5, Grows
<1> QED BY <1>6 DEF q

LEMMA ShiftGrows ==
  ASSUME DemoTypeOK, NEW d, Fit(d), NEW x \in ShiftIds, NEW who \in SUBSET Employees
  PROVE  Grown(d, ShiftCreated(d, x, who), {<<"shift", x>>})
<1> DEFINE q == ShiftCreated(d, x, who)
<1>0. d \in Document BY DEF Fit
<1>1. who # None BY NoneIsNoValue
<1>2. /\ q \in Document /\ q.seedDate = d.seedDate /\ SameRecords(d, q)
      /\ q.shifts = [d.shifts EXCEPT ![x] = who]
      /\ q.shifts[x] # None
      /\ q.photos = d.photos /\ q.sequence = d.sequence /\ q.flags = d.flags
      /\ q.sections = d.sections /\ q.own = d.own /\ q.queue = d.queue
  BY <1>0, <1>1 DEF ShiftCreated, Document, SameRecords
<1> HIDE DEF q
<1>3. Shows(d, q)
  BY <1>2, SameShows, DocumentFields, <1>0, BoundsAreNat DEF Shows
<1>4. MadeBy(q, made + 1) BY <1>2, StillMade
<1>5. {<<"shift", x>>} \subseteq Facts(q) BY <1>2, FactsShown
<1>6. Grown(d, q, {<<"shift", x>>}) BY <1>2, <1>3, <1>4, <1>5, Grows
<1> QED BY <1>6 DEF q

LEMMA KioskGrows ==
  ASSUME DemoTypeOK, NEW d, Fit(d), NEW kiosk \in KioskMode \cup {None}
  PROVE  Grown(d, [d EXCEPT !.kiosk = kiosk], {})
<1> DEFINE q == [d EXCEPT !.kiosk = kiosk]
<1>0. d \in Document BY DEF Fit
<1>2. /\ q \in Document /\ q.seedDate = d.seedDate /\ SameRecords(d, q)
      /\ q.photos = d.photos /\ q.sequence = d.sequence /\ q.flags = d.flags
      /\ q.sections = d.sections /\ q.own = d.own /\ q.queue = d.queue /\ q.shifts = d.shifts
  BY <1>0 DEF Document, SameRecords
<1> HIDE DEF q
<1>3. Shows(d, q)
  BY <1>2, SameShows, DocumentFields, <1>0, BoundsAreNat DEF Shows
<1>4. MadeBy(q, made + 1) BY <1>2, StillMade
<1>6. Grown(d, q, {}) BY <1>2, <1>3, <1>4, Grows
<1> QED BY <1>6 DEF q

\* An event put before those of its day, as unshift and the spread do.
LEMMA NewEventFields ==
  ASSUME DemoTypeOK, made < MaxCalls, NEW action \in Actions
  PROVE  /\ made + 1 \in CallIds
         /\ NewEvent(made + 1, action) \in Event
         /\ NewEvent(made + 1, action).id = made + 1
         /\ NewEvent(made + 1, action).action = action
         /\ NewEvent(made + 1, action).day = today
<1>1. made + 1 \in CallIds BY BoundsAreNat DEF DemoTypeOK, CallIds
<1>2. today \in Days BY DEF DemoTypeOK
<1> QED BY <1>1, <1>2 DEF NewEvent, Event

LEMMA StateAfterIsAState ==
  ASSUME NEW action PROVE StateAfter(action) \in States
BY DEF StateAfter, States

LEMMA ActionGrows ==
  ASSUME DemoTypeOK, NEW d, Fit(d), made < MaxCalls, NEW action \in Actions,
         ActionAllowed(d, action)
  PROVE  Grown(d, ActionTaken(d, made + 1, action), {<<"event", made + 1>>})
<1> DEFINE q == ActionTaken(d, made + 1, action)
           new == NewEvent(made + 1, action)
<1>0. d \in Document /\ d.events \in Seq(Event) BY DocumentFields DEF Fit
<1>1. /\ new \in Event /\ new.id = made + 1 /\ new.action = action /\ new.day = today
      /\ made + 1 \in CallIds
  BY NewEventFields
<1> HIDE DEF new
<1>2. /\ <<new>> \o d.events \in Seq(Event)
      /\ Len(d.events) \in Nat
      /\ DOMAIN (<<new>> \o d.events) = 1..(Len(d.events) + 1)
      /\ DOMAIN d.events = 1..Len(d.events)
      /\ (<<new>> \o d.events)[1] = new
      /\ \A i \in 1..Len(d.events) : (<<new>> \o d.events)[i + 1] = d.events[i]
      /\ \A i \in 1..(Len(d.events) + 1) :
           i # 1 => i - 1 \in 1..Len(d.events) /\ (<<new>> \o d.events)[i] = d.events[i - 1]
  BY <1>0, <1>1, Prepended
<1> DEFINE more == <<new>> \o d.events
           state == StateAfter(action)
<1>3. state \in States BY StateAfterIsAState
<1>4. q = [d EXCEPT !.state = state, !.events = more] BY DEF ActionTaken, new
<1> HIDE DEF more, state, q
<1>5. /\ q \in Document /\ q.seedDate = d.seedDate
      /\ q.events = more /\ q.kioskEvents = d.kioskEvents /\ q.kioskState = d.kioskState
      /\ q.photos = d.photos /\ q.sequence = d.sequence /\ q.flags = d.flags
      /\ q.sections = d.sections /\ q.own = d.own /\ q.queue = d.queue /\ q.shifts = d.shifts
  BY <1>0, <1>2, <1>3, <1>4 DEF Document, more
<1>6. \A i \in DOMAIN d.events : i + 1 \in DOMAIN q.events /\ q.events[i + 1] = d.events[i]
  BY <1>2, <1>5 DEF more
<1>7. \A i \in DOMAIN d.events : \E j \in DOMAIN q.events : q.events[j].id = d.events[i].id
  BY <1>6
<1>8. Facts(d) \subseteq Facts(q)
  <2>1. Shows(d, q)
    BY <1>0, <1>5, <1>7, DocumentFields, BoundsAreNat DEF Shows
  <2> QED BY <2>1, <1>0, <1>5, ShownFacts
<1>9. {<<"event", made + 1>>} \subseteq Facts(q)
  <2>1. 1 \in DOMAIN q.events /\ q.events[1].id = made + 1 BY <1>1, <1>2, <1>5 DEF more
  <2> QED BY <2>1, FactsShown
<1>10. OneClockInADay(q)
  <2>1. ASSUME NEW i \in DOMAIN q.events, NEW j \in DOMAIN q.events, i # j,
               q.events[i].action = "CLOCK_IN", q.events[j].action = "CLOCK_IN"
        PROVE  q.events[i].day # q.events[j].day
    <3>1. \A k \in DOMAIN q.events : k # 1 => k - 1 \in DOMAIN d.events /\ q.events[k] = d.events[k - 1]
      BY <1>2, <1>5 DEF more
    <3>2. q.events[1] = new BY <1>2, <1>5 DEF more
    <3>3. action = "CLOCK_IN" => \A k \in DOMAIN d.events :
            d.events[k].action = "CLOCK_IN" => d.events[k].day # today
      BY DEF ActionAllowed, AlreadyClockedInToday
    <3>4. CASE i = 1 BY <2>1, <3>1, <3>2, <3>3, <3>4, <1>1
    <3>5. CASE j = 1 BY <2>1, <3>1, <3>2, <3>3, <3>5, <1>1
    <3>6. CASE i # 1 /\ j # 1
      <4>1. i - 1 # j - 1
        <5>1. i \in Nat /\ j \in Nat BY <1>2, <1>5 DEF more
        <5> QED BY <5>1, <2>1
      <4>2. i - 1 \in DOMAIN d.events /\ j - 1 \in DOMAIN d.events BY <3>1, <3>6
      <4>3. OneClockInADay(d) BY DEF Fit, Legal
      <4> QED BY <2>1, <3>1, <3>6, <4>1, <4>2, <4>3 DEF OneClockInADay
    <3> QED BY <3>4, <3>5, <3>6
  <2> QED BY <2>1 DEF OneClockInADay
<1>11. \A e \in Employees : KioskRecordIsLegal(q, e)
  BY <1>5 DEF Fit, Legal, KioskRecordIsLegal, ReportStatus, Did
<1>12. MadeBy(q, made + 1) BY <1>5, StillMade
<1>13. Grown(d, q, {<<"event", made + 1>>})
  BY <1>5, <1>8, <1>9, <1>10, <1>11, <1>12 DEF Grown, Legal
<1> QED BY <1>13 DEF q

LEMMA KioskActionGrows ==
  ASSUME DemoTypeOK, NEW d, Fit(d), made < MaxCalls, NEW action \in Actions,
         NEW e \in Employees, NEW photo \in CallIds, KioskAllowed(d, e, action)
  PROVE  Grown(d, KioskTaken(d, made + 1, e, action, photo), {<<"event", made + 1>>})
<1> DEFINE q == KioskTaken(d, made + 1, e, action, photo)
           new == NewEvent(made + 1, action)
           old == d.kioskEvents[e]
<1>0. d \in Document /\ old \in Seq(Event) BY DocumentFields DEF Fit
<1>1. /\ new \in Event /\ new.id = made + 1 /\ new.action = action
      /\ made + 1 \in CallIds
  BY NewEventFields
<1> HIDE DEF new
<1>2. /\ <<new>> \o old \in Seq(Event)
      /\ Len(<<new>> \o old) = Len(old) + 1 /\ Len(old) \in Nat
      /\ DOMAIN (<<new>> \o old) = 1..(Len(old) + 1)
      /\ DOMAIN old = 1..Len(old)
      /\ (<<new>> \o old)[1] = new
      /\ \A i \in 1..Len(old) : (<<new>> \o old)[i + 1] = old[i]
  BY <1>0, <1>1, Prepended
<1> DEFINE more == <<new>> \o old
           state == StateAfter(action)
           evidence == IF photo \in d.photos THEN photo ELSE None
<1>3. state \in States /\ evidence \in CallIds \cup {None} BY StateAfterIsAState
<1>4. q = [d EXCEPT !.kioskState = [d.kioskState EXCEPT ![e] = state],
                    !.kioskEvents = [d.kioskEvents EXCEPT ![e] = more],
                    !.evidence = [d.evidence EXCEPT ![made + 1] = evidence]]
  BY DEF KioskTaken, new
<1> HIDE DEF more, state, q, evidence
<1>5. /\ q \in Document /\ q.seedDate = d.seedDate /\ q.events = d.events
      /\ q.kioskEvents = [d.kioskEvents EXCEPT ![e] = more]
      /\ q.kioskState = [d.kioskState EXCEPT ![e] = state]
      /\ q.photos = d.photos /\ q.sequence = d.sequence /\ q.flags = d.flags
      /\ q.sections = d.sections /\ q.own = d.own /\ q.queue = d.queue /\ q.shifts = d.shifts
  BY <1>0, <1>1, <1>2, <1>3, <1>4 DEF Document, more
<1>6. /\ q.kioskEvents[e] = more /\ q.kioskState[e] = state
      /\ \A f \in Employees \ {e} : q.kioskEvents[f] = d.kioskEvents[f]
                                    /\ q.kioskState[f] = d.kioskState[f]
  BY <1>0, <1>5, DocumentFields
<1>7. \A f \in Employees : \A i \in DOMAIN d.kioskEvents[f] :
        \E j \in DOMAIN q.kioskEvents[f] : q.kioskEvents[f][j].id = d.kioskEvents[f][i].id
  <2>1. \A i \in DOMAIN old : i + 1 \in DOMAIN more /\ more[i + 1] = old[i] BY <1>2 DEF more
  <2> HIDE DEF old
  <2>2. \A i \in DOMAIN old : \E j \in DOMAIN more : more[j].id = old[i].id BY <2>1
  <2> QED BY <1>6, <2>2 DEF old
<1>8. Facts(d) \subseteq Facts(q)
  <2>1. /\ q.events = d.events /\ q.photos = d.photos /\ q.sequence = d.sequence
        /\ q.flags = d.flags /\ q.sections = d.sections /\ q.own = d.own
        /\ q.queue = d.queue /\ q.shifts = d.shifts
    BY <1>5
  <2>2. Shows(d, q)
    BY <1>0, <1>7, <2>1, DocumentFields, BoundsAreNat DEF Shows
  <2> QED BY <2>2, <1>0, <1>5, ShownFacts
<1>9. {<<"event", made + 1>>} \subseteq Facts(q)
  <2>1. 1 \in DOMAIN q.kioskEvents[e] /\ q.kioskEvents[e][1].id = made + 1
    BY <1>1, <1>2, <1>6 DEF more
  <2> QED BY <2>1, FactsShown
<1>10. OneClockInADay(q) BY <1>5 DEF Fit, Legal, OneClockInADay
<1>11. ASSUME NEW f \in Employees PROVE KioskRecordIsLegal(q, f)
  <2>1. CASE f # e
    BY <2>1, <1>6 DEF Fit, Legal, KioskRecordIsLegal, ReportStatus, Did
  <2>2. CASE f = e
    <3>1. KioskRecord(d, e) BY <1>0, KioskRecordByLength DEF Fit, Legal
    <3>2. /\ Len(more) = Len(old) + 1 /\ Len(old) \in Nat /\ more[1].action = action
          /\ Len(old) = 1 => more[2] = old[1]
      <4>1. Len(old) = 1 => 1 \in 1..Len(old) OBVIOUS
      <4> QED BY <4>1, <1>1, <1>2 DEF more
    <3>3. KioskRecord(q, e)
      <4>1. CASE d.kioskState[e] = "NOT_STARTED" /\ action = "CLOCK_IN"
        <5>1. Len(old) = 0 BY <3>1, <4>1 DEF KioskRecord
        <5>2. state = "WORKING" BY <4>1 DEF state, StateAfter
        <5> QED BY <5>1, <5>2, <4>1, <3>2, <1>6 DEF KioskRecord
      <4>2. CASE d.kioskState[e] = "WORKING" /\ action = "CLOCK_OUT"
        <5>1. Len(old) = 1 /\ old[1].action = "CLOCK_IN" BY <3>1, <4>2 DEF KioskRecord
        <5>2. state = "COMPLETED" BY <4>2 DEF state, StateAfter
        <5> QED BY <5>1, <5>2, <4>2, <3>2, <1>6 DEF KioskRecord
      <4>3. d.kioskState[e] # "ON_BREAK" BY <3>1 DEF KioskRecord
      <4> QED BY <4>1, <4>2, <4>3 DEF KioskAllowed
    <3> QED BY <2>2, <3>3, <1>5, KioskRecordByLength
  <2> QED BY <2>1, <2>2
<1>12. MadeBy(q, made + 1) BY <1>5, StillMade
<1>13. Grown(d, q, {<<"event", made + 1>>})
  BY <1>5, <1>8, <1>9, <1>10, <1>11, <1>12 DEF Grown, Legal
<1> QED BY <1>13 DEF q

\* A route that stores what it read.
LEMMA SameGrows ==
  ASSUME DemoTypeOK, NEW d, Fit(d)
  PROVE  Grown(d, d, {})
<1>1. MadeBy(d, made + 1) BY StillMade
<1> QED BY <1>1 DEF Grown, Fit

\* The sample.
LEMMA SeedIsFit ==
  ASSUME DemoTypeOK, NEW day \in Days
  PROVE  Fit(InitialState(day)) /\ InitialState(day).seedDate = day
<1> DEFINE q == InitialState(day)
<1>1. SeedSections \in [SectionIds -> Section \cup {None}]
  <2>1. (CHOOSE c \in Codes : TRUE) \in Codes BY SomeCode
  <2>2. [code |-> CHOOSE c \in Codes : TRUE, active |-> TRUE] \in Section BY <2>1 DEF Section
  <2> QED BY <2>2 DEF SeedSections
<1>2. SeedQueues \in [Queues -> {"PENDING", "APPROVED", "REJECTED"}] BY DEF SeedQueues
<1>3. SeedShifts \in [ShiftIds -> {None} \cup SUBSET Employees] BY DEF SeedShifts
<1>4. /\ [e \in Employees |-> "NOT_STARTED"] \in [Employees -> States]
      /\ [e \in Employees |-> <<>>] \in [Employees -> Seq(Event)]
      /\ [i \in CallIds |-> None] \in [CallIds -> CallIds \cup {None}]
      /\ [k \in Own |-> [i \in CallIds |-> None]]
           \in [Own -> [CallIds -> {"PENDING", "WITHDRAWN", None}]]
      /\ "NOT_STARTED" \in States /\ <<>> \in Seq(Event) /\ 0 \in 0..MaxCalls
  BY BoundsAreNat DEF States
<1>5. q \in Document BY <1>1, <1>2, <1>3, <1>4 DEF InitialState, Document
<1>6. /\ q.seedDate = day /\ q.events = <<>> /\ q.sequence = 0
      /\ \A e \in Employees : q.kioskEvents[e] = <<>> /\ q.kioskState[e] = "NOT_STARTED"
      /\ \A k \in Own : \A i \in CallIds : q.own[k][i] = None
  BY DEF InitialState
<1> HIDE DEF q
<1>7. OneClockInADay(q) BY <1>6 DEF OneClockInADay
<1>8. \A e \in Employees : KioskRecord(q, e) BY <1>6 DEF KioskRecord
<1>9. MadeBy(q, made) BY <1>6, BoundsAreNat DEF MadeBy, DemoTypeOK
<1>10. Fit(q) BY <1>5, <1>7, <1>8, <1>9, KioskRecordByLength DEF Fit, Legal
<1> QED BY <1>6, <1>10 DEF q

-----------------------------------------------------------------------------
(* The beginning of a call. *)

\* A call of the slot c begins: what it read is taken or not.
Began(c, role, takes, leaves, tells) ==
  /\ slot[c] = None
  /\ made < IF role = "kiosk" THEN MaxCalls ELSE MaxBusy
  /\ \A b \in Slots : slot[b] # None => slot[b].role = role
  /\ made' = made + 1
  /\ slot' = [slot EXCEPT ![c] =
       [role |-> role, day |-> today, saw |-> document, seeds |-> ~Usable(document),
        writes |-> IF takes THEN leaves ELSE None,
        tells |-> IF takes THEN tells ELSE {}]]
  /\ UNCHANGED <<document, today, told, raced>>

\* What the route of a call starts from.
Read == IF Usable(document) THEN document ELSE InitialState(today)

LEMMA ReadIsFit ==
  ASSUME DemoInv
  PROVE  Fit(Read) /\ Read.seedDate = today
<1>1. DemoTypeOK /\ today \in Days BY DEF DemoInv, DemoTypeOK
<1>2. CASE Usable(document)
  BY <1>1, <1>2 DEF Read, Usable, DemoInv, Fit, DemoTypeOK
<1>3. CASE ~Usable(document) BY <1>1, <1>3, SeedIsFit DEF Read
<1> QED BY <1>2, <1>3

LEMMA LookBegins ==
  ASSUME NEW c, Look(c)
  PROVE  \E role \in {"employee", "supervisor"} : Began(c, role, FALSE, Read, {})
BY Zenon DEF Look, Begin, Began, Read

LEMMA UploadBegins ==
  ASSUME NEW c, UploadAttachment(c)
  PROVE  Began(c, "employee", TRUE, PhotoStored(Read, made + 1), {<<"photo", made + 1>>})
BY Zenon DEF UploadAttachment, Begin, Began, Always, Read, New

LEMMA AttendanceBegins ==
  ASSUME NEW c, AttendanceAction(c)
  PROVE  \E action \in Actions :
           Began(c, "employee", ActionAllowed(Read, action), ActionTaken(Read, made + 1, action),
                 {<<"event", made + 1>>})
BY Zenon DEF AttendanceAction, Begin, Began, Read, New
LEMMA RevokeBegins ==
  ASSUME NEW c, RevokeKiosk(c)
  PROVE  Began(c, "supervisor", TRUE, KioskRevoked(Read), {})
BY Zenon DEF RevokeKiosk, Begin, Began, Read, Always

LEMMA OwnBegins ==
  ASSUME NEW c, CreateOwn(c)
  PROVE  \E k \in Own :
           Began(c, "employee", TRUE,
                 OwnCreated(Read, k, made + 1), {<<"own", made + 1>>})
BY Zenon DEF CreateOwn, Begin, Began, Read, Always, New

LEMMA WithdrawBegins ==
  ASSUME NEW c, WithdrawOwn(c)
  PROVE  \E k \in Own, i \in 1..made :
           Began(c, "employee", TRUE,
                 OwnWithdrawn(Read, k, i), {})
BY Zenon DEF WithdrawOwn, Begin, Began, Read, Always

LEMMA FlagBegins ==
  ASSUME NEW c, Flag(c)
  PROVE  \E flags \in {{"openShiftRequested"}, {"announcementAcknowledged", "read"}, {"read"}} :
           Began(c, "employee", TRUE,
                 Flagged(Read, flags), {<<f, 0>> : f \in flags})
BY Zenon DEF Flag, Begin, Began, Read, Always

LEMMA DecideBegins ==
  ASSUME NEW c, Decide(c)
  PROVE  \E q \in Queues, decision \in {"APPROVED", "REJECTED"} :
           Began(c, "supervisor", TRUE,
                 Decided(Read, q, decision), {<<q, 0>>})
BY Zenon DEF Decide, Begin, Began, Read, Always

LEMMA EmployeeBegins ==
  ASSUME NEW c, CreateEmployee(c)
  PROVE  Began(c, "supervisor", TRUE,
               EmployeeCreated(Read), {})
BY Zenon DEF CreateEmployee, Begin, Began, Read, Always

LEMMA CreateSectionBegins ==
  ASSUME NEW c, CreateSection(c)
  PROVE  \E code \in Codes :
           Began(c, "supervisor", CodeFree(Read, made + 1, code),
                 SectionPut(Read, made + 1, code), {<<"showroom", made + 1>>})
BY Zenon DEF CreateSection, Begin, Began, Read, New

LEMMA UpdateSectionBegins ==
  ASSUME NEW c, UpdateSection(c)
  PROVE  \E s \in 0..made, code \in Codes :
           Began(c, "supervisor", Read.sections[s] # None /\ CodeFree(Read, s, code),
                 SectionPut(Read, s, code), {})
BY Zenon DEF UpdateSection, Begin, Began, Read

LEMMA SwitchSectionBegins ==
  ASSUME NEW c, SwitchSection(c)
  PROVE  \E s \in 0..made, active \in BOOLEAN :
           Began(c, "supervisor", Read.sections[s] # None,
                 SectionSwitched(Read, s, active), {})
BY Zenon DEF SwitchSection, Begin, Began, Read

LEMMA ShiftBegins ==
  ASSUME NEW c, CreateShift(c)
  PROVE  \E who \in SUBSET Employees :
           Began(c, "supervisor", TRUE,
                 ShiftCreated(Read, made + 1, who), {<<"shift", made + 1>>})
BY Zenon DEF CreateShift, Begin, Began, Read, Always, New

LEMMA ParticipantsBegins ==
  ASSUME NEW c, SaveParticipants(c)
  PROVE  \E x \in 0..made, who \in SUBSET Employees :
           Began(c, "supervisor", Read.shifts[x] # None,
                 ParticipantsSaved(Read, x, who), {})
BY Zenon DEF SaveParticipants, Begin, Began, Read

LEMMA ActivateBegins ==
  ASSUME NEW c, ActivateKiosk(c)
  PROVE  \E s \in 0..made :
           Began(c, "supervisor", Read.sections[s] # None /\ Read.sections[s].active,
                 KioskActivated(Read, made + 1, s), {})
BY Zenon DEF ActivateKiosk, Begin, Began, Read, New

LEMMA StatusBegins ==
  ASSUME NEW c, KioskStatus(c)
  PROVE  \E token \in 1..made :
           Began(c, "kiosk", KioskOpen(Read, token),
                 Read, {})
BY Zenon DEF KioskStatus, Begin, Began, Read

LEMMA KioskUploadBegins ==
  ASSUME NEW c, KioskUpload(c)
  PROVE  \E token \in 1..made :
           Began(c, "kiosk", Read.kiosk # None /\ Read.kiosk.token = token,
                 None, {<<"photo", made + 1>>})
BY Zenon DEF KioskUpload, Begin, Began, Read, New

LEMMA KioskActionBegins ==
  ASSUME NEW c, KioskAction(c)
  PROVE  \E token \in 1..made, e \in Employees, action \in Actions,
              photo \in {p \in 1..made : <<"photo", p>> \in told} :
           Began(c, "kiosk", KioskOpen(Read, token) /\ KioskAllowed(Read, e, action),
                 KioskTaken(Read, made + 1, e, action, photo), {<<"event", made + 1>>})
BY Zenon DEF KioskAction, Begin, Began, Read, New

-----------------------------------------------------------------------------
(* The steps. *)

LEMMA BeginKeeps ==
  ASSUME DemoInv, NEW c \in Slots, NEW role \in Roles, NEW takes \in BOOLEAN, NEW leaves, NEW tells,
         Began(c, role, takes, leaves, tells),
         takes => /\ leaves = None \/ Grown(Read, leaves, tells)
                  /\ tells \in SUBSET (FactKinds \X Nat)
  PROVE  DemoInv'
<1> DEFINE w == IF takes THEN leaves ELSE None
           t == IF takes THEN tells ELSE {}
           call == [role |-> role, day |-> today, saw |-> document,
                    seeds |-> ~Usable(document), writes |-> w, tells |-> t]
<1>0. DemoTypeOK BY DEF DemoInv
<1>1. /\ made < MaxCalls /\ made' = made + 1 /\ slot' = [slot EXCEPT ![c] = call]
      /\ UNCHANGED <<document, today, told, raced>>
  <2>1. made < MaxCalls BY <1>0, BoundsAreNat DEF Began, DemoTypeOK
  <2>2. slot' = [slot EXCEPT ![c] = call] BY Zenon DEF Began
  <2> QED BY <2>1, <2>2 DEF Began
<1>2. /\ made \in Nat /\ made' \in 0..MaxCalls /\ today \in Days /\ today \in Nat
      /\ document \in Document \cup {None}
  BY <1>0, <1>1, BoundsAreNat DEF DemoTypeOK, Days
<1>3. /\ w # None => Grown(Read, w, t)
      /\ w \in Document \cup {None} /\ t \in SUBSET (FactKinds \X Nat)
  <2>1. CASE takes
    <3>1. w = leaves /\ t = tells BY <2>1
    <3>2. leaves \in Document \cup {None} BY <2>1 DEF Grown
    <3> QED BY <3>1, <3>2, <2>1
  <2>2. CASE ~takes
    <3>1. w = None /\ t = {} BY <2>2
    <3> QED BY <3>1
  <2> QED BY <2>1, <2>2
<1> HIDE DEF w, t
<1>4. Usable(document) \in BOOLEAN BY DEF Usable
<1>5. call \in Call BY <1>2, <1>3, <1>4 DEF Call
<1>6. /\ call.day = today /\ call.saw = document /\ call.seeds = ~Usable(document)
      /\ call.writes = w /\ call.tells = t
  OBVIOUS
<1> HIDE DEF call
<1>7. DemoTypeOK' BY <1>0, <1>1, <1>2, <1>5 DEF DemoTypeOK
<1>8. MadeBy(document, made) /\ document # None => MadeBy(document, made)'
  <2>1. MadeBy(document, made) /\ document # None => MadeBy(document, made + 1)
    BY <1>0, <1>2, MadeMore
  <2> QED BY <2>1, <1>1 DEF MadeBy
<1>9. document' # None => Legal(document)' /\ MadeBy(document, made)' /\ (document.seedDate <= today)'
  BY <1>1, <1>8 DEF DemoInv, Legal
<1>10. ASSUME NEW b \in Slots, slot'[b] # None PROVE CopyIsSound(slot[b])'
  <2>1. CASE b # c
    <3>1. slot'[b] = slot[b] /\ slot[b] # None BY <1>0, <1>1, <2>1, <1>10 DEF DemoTypeOK
    <3>2. slot[b] \in Call /\ CopyIsSound(slot[b]) BY <1>0, <3>1 DEF DemoInv, DemoTypeOK
    <3>3. PICK r : r = slot[b] OBVIOUS
    <3>4. r.writes # None => r.writes \in Document BY <3>2, <3>3 DEF Call
    <3>5. r.writes # None /\ MadeBy(r.writes, made) => MadeBy(r.writes, made + 1)
      BY <1>0, <1>2, <3>4, MadeMore
    <3>6. CopyIsSound(r) BY <3>2, <3>3
    <3>7. CopyIsSound(r)' BY <1>1, <3>5, <3>6 DEF CopyIsSound, Base, Legal
    <3> QED BY <3>1, <3>3, <3>7 DEF CopyIsSound
  <2>2. CASE b = c
    <3>1. slot'[b] = call BY <1>0, <1>1, <2>2 DEF DemoTypeOK
    <3>2. Base(call) = Read BY <1>6 DEF Base, Read
    <3>3. Read.seedDate = today BY ReadIsFit
    <3>4. IF call.seeds THEN call.saw # None => call.saw.seedDate < call.day
                        ELSE call.saw # None /\ call.saw.seedDate = call.day
      <4>1. CASE Usable(document) BY <4>1, <1>6 DEF Usable
      <4>2. CASE ~Usable(document)
        <5>1. document # None => document.seedDate # today /\ document.seedDate <= today
          BY <4>2 DEF Usable, DemoInv
        <5>2. document # None => document.seedDate \in Nat
          BY <1>2, DocumentFields DEF Days
        <5>3. document # None => document.seedDate < today BY <5>1, <5>2, <1>2
        <5> QED BY <5>3, <4>2, <1>6
      <4> QED BY <4>1, <4>2
    <3>5. w # None => /\ Legal(w) /\ MadeBy(w, made + 1) /\ w.seedDate = today
                      /\ Facts(Base(call)) \cup t \subseteq Facts(w)
      BY <1>3, <3>2, <3>3 DEF Grown
    <3>6. PICK r : r = call OBVIOUS
    <3>7. /\ r.day = today /\ r.writes = w /\ r.tells = t
          /\ Facts(Base(r)) = Facts(Base(call))
      BY <3>6, <1>6
    <3>8. IF r.seeds THEN r.saw # None => r.saw.seedDate < r.day
                     ELSE r.saw # None /\ r.saw.seedDate = r.day
      BY <3>4, <3>6
    <3>9. today <= today BY <1>2
    <3>10. CopyIsSound(r)' BY <1>1, <3>5, <3>7, <3>8, <3>9 DEF CopyIsSound, Base, Legal
    <3> QED BY <3>1, <3>6, <3>10 DEF CopyIsSound
  <2> QED BY <2>1, <2>2
<1>11. ConfirmedIsStored' BY <1>1 DEF DemoInv, ConfirmedIsStored, Usable
<1> QED BY <1>0, <1>7, <1>9, <1>10, <1>11 DEF DemoInv

\* What a call may count on when it begins.
LEMMA BeganIsBounded ==
  ASSUME DemoInv, NEW c, NEW role, NEW takes, NEW leaves, NEW tells,
         Began(c, role, takes, leaves, tells)
  PROVE  /\ DemoTypeOK /\ Fit(Read) /\ made < MaxCalls /\ made \in Nat
         /\ made + 1 \in Nat /\ made + 1 \in CallIds /\ made + 1 \in SectionIds /\ made + 1 \in ShiftIds
         /\ 0..made \subseteq SectionIds /\ 0..made \subseteq ShiftIds
<1>1. DemoTypeOK BY DEF DemoInv
<1>2. made < MaxCalls /\ made \in Nat /\ MaxCalls \in Nat
  BY <1>1, BoundsAreNat DEF Began, DemoTypeOK
<1> QED BY <1>1, <1>2, ReadIsFit DEF CallIds, SectionIds, ShiftIds

LEMMA OneFact ==
  ASSUME NEW kind \in FactKinds, NEW n \in Nat
  PROVE  {<<kind, n>>} \in SUBSET (FactKinds \X Nat)
<1>1. <<kind, n>> \in FactKinds \X Nat OBVIOUS
<1> QED BY <1>1

LEMMA KindsOfFacts ==
  /\ "event" \in FactKinds /\ "photo" \in FactKinds /\ "own" \in FactKinds
  /\ "showroom" \in FactKinds /\ "shift" \in FactKinds
BY DEF FactKinds

LEMMA FlagFactsAre ==
  ASSUME NEW flags \in SUBSET Flags
  PROVE  {<<f, 0>> : f \in flags} \in SUBSET (FactKinds \X Nat)
<1>1. \A f \in flags : f \in FactKinds BY DEF FactKinds
<1>2. \A f \in flags : <<f, 0>> \in FactKinds \X Nat BY <1>1
<1> QED BY <1>2

LEMMA LookKeeps ==
  ASSUME DemoInv, NEW c \in Slots, Look(c)
  PROVE  DemoInv'
<1>1. PICK role \in {"employee", "supervisor"} : Began(c, role, FALSE, Read, {}) BY LookBegins
<1>2. role \in Roles BY DEF Roles
<1> QED BY <1>1, <1>2, BeginKeeps

LEMMA EmployeeCallKeeps ==
  ASSUME DemoInv, NEW c \in Slots, EmployeeCall(c)
  PROVE  DemoInv'
<1>0. "employee" \in Roles BY DEF Roles
<1>1. CASE AttendanceAction(c)
  <2>1. PICK action \in Actions :
          Began(c, "employee", ActionAllowed(Read, action),
                ActionTaken(Read, made + 1, action), {<<"event", made + 1>>})
    BY <1>1, AttendanceBegins
  <2>2. ActionAllowed(Read, action) \in BOOLEAN BY DEF ActionAllowed
  <2>3. ActionAllowed(Read, action) =>
          Grown(Read, ActionTaken(Read, made + 1, action), {<<"event", made + 1>>})
    BY <2>1, BeganIsBounded, ActionGrows
  <2>4. {<<"event", made + 1>>} \in SUBSET (FactKinds \X Nat)
    BY <2>1, BeganIsBounded, KindsOfFacts, OneFact
  <2> QED BY <1>0, <2>1, <2>2, <2>3, <2>4, BeginKeeps
<1>2. CASE UploadAttachment(c)
  <2>1. Began(c, "employee", TRUE, PhotoStored(Read, made + 1), {<<"photo", made + 1>>})
    BY <1>2, UploadBegins
  <2>2. Grown(Read, PhotoStored(Read, made + 1), {<<"photo", made + 1>>})
    BY <2>1, BeganIsBounded, PhotoGrows
  <2>3. {<<"photo", made + 1>>} \in SUBSET (FactKinds \X Nat)
    BY <2>1, BeganIsBounded, KindsOfFacts, OneFact
  <2> QED BY <1>0, <2>1, <2>2, <2>3, BeginKeeps
<1>3. CASE CreateOwn(c)
  <2>1. PICK k \in Own :
          Began(c, "employee", TRUE, OwnCreated(Read, k, made + 1), {<<"own", made + 1>>})
    BY <1>3, OwnBegins
  <2>2. Grown(Read, OwnCreated(Read, k, made + 1), {<<"own", made + 1>>})
    BY <2>1, BeganIsBounded, OwnGrows
  <2>3. {<<"own", made + 1>>} \in SUBSET (FactKinds \X Nat)
    BY <2>1, BeganIsBounded, KindsOfFacts, OneFact
  <2> QED BY <1>0, <2>1, <2>2, <2>3, BeginKeeps
<1>4. CASE WithdrawOwn(c)
  <2>1. PICK k \in Own, i \in 1..made :
          Began(c, "employee", TRUE, OwnWithdrawn(Read, k, i), {})
    BY <1>4, WithdrawBegins
  <2>2. Grown(Read, OwnWithdrawn(Read, k, i), {}) BY <2>1, BeganIsBounded, WithdrawnGrows
  <2> QED BY <1>0, <2>1, <2>2, BeginKeeps
<1>5. CASE Flag(c)
  <2>1. PICK flags \in {{"openShiftRequested"}, {"announcementAcknowledged", "read"}, {"read"}} :
          Began(c, "employee", TRUE, Flagged(Read, flags), {<<f, 0>> : f \in flags})
    BY <1>5, FlagBegins
  <2>2. flags \in SUBSET Flags BY DEF Flags
  <2>3. Grown(Read, Flagged(Read, flags), {<<f, 0>> : f \in flags})
    BY <2>1, <2>2, BeganIsBounded, FlagsGrow
  <2>4. {<<f, 0>> : f \in flags} \in SUBSET (FactKinds \X Nat) BY <2>2, FlagFactsAre
  <2> QED BY <1>0, <2>1, <2>3, <2>4, BeginKeeps
<1> QED BY <1>1, <1>2, <1>3, <1>4, <1>5 DEF EmployeeCall

\* The showrooms: one put anew, renamed, or switched on or off.
LEMMA SectionPutGrows ==
  ASSUME DemoTypeOK, NEW d, Fit(d), NEW s \in SectionIds, NEW code \in Codes
  PROVE  Grown(d, SectionPut(d, s, code), {<<"showroom", s>>})
<1> DEFINE section == [code |-> code, active |-> IF d.sections[s] = None THEN TRUE
                                                 ELSE d.sections[s].active]
<1>1. SectionPut(d, s, code) = [d EXCEPT !.sections = [d.sections EXCEPT ![s] = section]]
  BY DEF SectionPut
<1>2. d.sections[s] = None \/ d.sections[s].active \in BOOLEAN
  BY DocumentFields DEF Fit, Section
<1>3. section \in Section BY <1>2 DEF Section
<1> HIDE DEF section
<1> QED BY <1>1, <1>3, SectionGrows

LEMMA SectionSwitchedGrows ==
  ASSUME DemoTypeOK, NEW d, Fit(d), NEW s \in SectionIds, d.sections[s] # None,
         NEW active \in BOOLEAN
  PROVE  Grown(d, SectionSwitched(d, s, active), {<<"showroom", s>>})
<1> DEFINE section == [d.sections[s] EXCEPT !.active = active]
<1>1. SectionSwitched(d, s, active) = [d EXCEPT !.sections = [d.sections EXCEPT ![s] = section]]
  BY DEF SectionSwitched
<1>2. d.sections[s] \in Section BY DocumentFields DEF Fit
<1>3. section \in Section BY <1>2 DEF Section
<1> HIDE DEF section
<1> QED BY <1>1, <1>3, SectionGrows

\* What tells more tells less.
LEMMA GrownTellingNothing ==
  ASSUME NEW d, NEW q, NEW tells, Grown(d, q, tells)
  PROVE  Grown(d, q, {})
BY DEF Grown

LEMMA ShowroomCallKeeps ==
  ASSUME DemoInv, NEW c \in Slots, CreateSection(c) \/ UpdateSection(c) \/ SwitchSection(c)
  PROVE  DemoInv'
<1>0. "supervisor" \in Roles BY DEF Roles
<1>1. CASE CreateSection(c)
  <2>1. PICK code \in Codes :
          Began(c, "supervisor", CodeFree(Read, made + 1, code),
                SectionPut(Read, made + 1, code), {<<"showroom", made + 1>>})
    BY <1>1, CreateSectionBegins
  <2>2. CodeFree(Read, made + 1, code) \in BOOLEAN BY DEF CodeFree
  <2>3. Grown(Read, SectionPut(Read, made + 1, code), {<<"showroom", made + 1>>})
    BY <2>1, BeganIsBounded, SectionPutGrows
  <2>4. {<<"showroom", made + 1>>} \in SUBSET (FactKinds \X Nat)
    BY <2>1, BeganIsBounded, KindsOfFacts, OneFact
  <2> QED BY <1>0, <2>1, <2>2, <2>3, <2>4, BeginKeeps
<1>2. CASE UpdateSection(c)
  <2>1. PICK s \in 0..made, code \in Codes :
          Began(c, "supervisor", Read.sections[s] # None /\ CodeFree(Read, s, code),
                SectionPut(Read, s, code), {})
    BY <1>2, UpdateSectionBegins
  <2>2. (Read.sections[s] # None /\ CodeFree(Read, s, code)) \in BOOLEAN OBVIOUS
  <2>3. Grown(Read, SectionPut(Read, s, code), {<<"showroom", s>>})
    BY <2>1, BeganIsBounded, SectionPutGrows
  <2>4. Grown(Read, SectionPut(Read, s, code), {}) BY <2>3, GrownTellingNothing
  <2> QED BY <1>0, <2>1, <2>2, <2>4, BeginKeeps
<1>3. CASE SwitchSection(c)
  <2>1. PICK s \in 0..made, active \in BOOLEAN :
          Began(c, "supervisor", Read.sections[s] # None, SectionSwitched(Read, s, active), {})
    BY <1>3, SwitchSectionBegins
  <2>2. (Read.sections[s] # None) \in BOOLEAN OBVIOUS
  <2>3. ASSUME Read.sections[s] # None
        PROVE  Grown(Read, SectionSwitched(Read, s, active), {})
    <3>1. Grown(Read, SectionSwitched(Read, s, active), {<<"showroom", s>>})
      BY <2>1, <2>3, BeganIsBounded, SectionSwitchedGrows
    <3> QED BY <3>1, GrownTellingNothing
  <2> QED BY <1>0, <2>1, <2>2, <2>3, BeginKeeps
<1> QED BY <1>1, <1>2, <1>3

LEMMA SupervisorCallKeeps ==
  ASSUME DemoInv, NEW c \in Slots, SupervisorCall(c)
  PROVE  DemoInv'
<1>0. "supervisor" \in Roles BY DEF Roles
<1>1. CASE Decide(c)
  <2>1. PICK q \in Queues, decision \in {"APPROVED", "REJECTED"} :
          Began(c, "supervisor", TRUE, Decided(Read, q, decision), {<<q, 0>>})
    BY <1>1, DecideBegins
  <2>2. Grown(Read, Decided(Read, q, decision), {<<q, 0>>})
    BY <2>1, BeganIsBounded, DecisionGrows
  <2>3. {<<q, 0>>} \in SUBSET (FactKinds \X Nat)
    BY OneFact DEF FactKinds
  <2> QED BY <1>0, <2>1, <2>2, <2>3, BeginKeeps
<1>2. CASE CreateEmployee(c)
  <2>1. Began(c, "supervisor", TRUE, EmployeeCreated(Read), {}) BY <1>2, EmployeeBegins
  <2>2. Grown(Read, EmployeeCreated(Read), {}) BY <2>1, BeganIsBounded, EmployeeGrows
  <2> QED BY <1>0, <2>1, <2>2, BeginKeeps
<1>3. CASE CreateShift(c)
  <2>1. PICK who \in SUBSET Employees :
          Began(c, "supervisor", TRUE, ShiftCreated(Read, made + 1, who), {<<"shift", made + 1>>})
    BY <1>3, ShiftBegins
  <2>2. Grown(Read, ShiftCreated(Read, made + 1, who), {<<"shift", made + 1>>})
    BY <2>1, BeganIsBounded, ShiftGrows
  <2>3. {<<"shift", made + 1>>} \in SUBSET (FactKinds \X Nat)
    BY <2>1, BeganIsBounded, KindsOfFacts, OneFact
  <2> QED BY <1>0, <2>1, <2>2, <2>3, BeginKeeps
<1>4. CASE SaveParticipants(c)
  <2>1. PICK x \in 0..made, who \in SUBSET Employees :
          Began(c, "supervisor", Read.shifts[x] # None, ParticipantsSaved(Read, x, who), {})
    BY <1>4, ParticipantsBegins
  <2>2. (Read.shifts[x] # None) \in BOOLEAN OBVIOUS
  <2>3. ParticipantsSaved(Read, x, who) = ShiftCreated(Read, x, who)
    BY DEF ParticipantsSaved, ShiftCreated
  <2>4. Grown(Read, ShiftCreated(Read, x, who), {<<"shift", x>>})
    BY <2>1, BeganIsBounded, ShiftGrows
  <2>5. Grown(Read, ParticipantsSaved(Read, x, who), {}) BY <2>3, <2>4, GrownTellingNothing
  <2> QED BY <1>0, <2>1, <2>2, <2>5, BeginKeeps
<1>5. CASE CreateSection(c) \/ UpdateSection(c) \/ SwitchSection(c)
  BY <1>5, ShowroomCallKeeps
<1>6. CASE ActivateKiosk(c)
  <2>1. PICK s \in 0..made :
          Began(c, "supervisor", Read.sections[s] # None /\ Read.sections[s].active,
                KioskActivated(Read, made + 1, s), {})
    BY <1>6, ActivateBegins
  <2> DEFINE kiosk == [token |-> made + 1, section |-> s]
  <2>2. kiosk \in KioskMode BY <2>1, BeganIsBounded DEF KioskMode
  <2>3. KioskActivated(Read, made + 1, s) = [Read EXCEPT !.kiosk = kiosk] BY DEF KioskActivated
  <2> HIDE DEF kiosk
  <2>4. Grown(Read, KioskActivated(Read, made + 1, s), {})
    BY <2>1, <2>2, <2>3, BeganIsBounded, KioskGrows
  <2>5. (Read.sections[s] # None /\ Read.sections[s].active) \in BOOLEAN OBVIOUS
  <2> QED BY <1>0, <2>1, <2>4, <2>5, BeginKeeps
<1>7. CASE RevokeKiosk(c)
  <2>1. Began(c, "supervisor", TRUE, KioskRevoked(Read), {}) BY <1>7, RevokeBegins
  <2>2. KioskRevoked(Read) = [Read EXCEPT !.kiosk = None] BY DEF KioskRevoked
  <2>3. Grown(Read, KioskRevoked(Read), {}) BY <2>1, <2>2, BeganIsBounded, KioskGrows
  <2> QED BY <1>0, <2>1, <2>3, BeginKeeps
<1> QED BY <1>1, <1>2, <1>3, <1>4, <1>5, <1>6, <1>7 DEF SupervisorCall

\* The second read of a kiosk's upload.
LEMMA UploadReadsKeeps ==
  ASSUME DemoInv, NEW c \in Slots, KioskUploadReads(c)
  PROVE  DemoInv'
<1>0. DemoTypeOK /\ today \in Days /\ today \in Nat /\ document \in Document \cup {None}
  BY DEF DemoInv, DemoTypeOK, Days
<1>1. PICK r \in Call : r = slot[c] BY <1>0 DEF KioskUploadReads, Checked, DemoTypeOK
<1>2. PICK n \in CallIds :
        /\ r.tells = {<<"photo", n>>}
        /\ slot' = [slot EXCEPT ![c] =
             [r EXCEPT !.day = today, !.saw = document, !.seeds = ~Usable(document),
                       !.writes = PhotoStored(Read, n)]]
  BY <1>1, Zenon DEF KioskUploadReads, Read
<1>3. UNCHANGED <<document, today, made, told, raced>> BY DEF KioskUploadReads
<1>4. PICK q : q = PhotoStored(Read, n) OBVIOUS
<1>5. Fit(Read) /\ Read.seedDate = today BY ReadIsFit
<1>6. Grown(Read, q, {<<"photo", n>>}) /\ MadeBy(q, made) BY <1>0, <1>4, <1>5, PhotoGrows
<1>7. /\ q \in Document /\ Legal(q) /\ q.seedDate = today
      /\ Facts(Read) \cup {<<"photo", n>>} \subseteq Facts(q)
  BY <1>5, <1>6 DEF Grown
<1>8. PICK u \in BOOLEAN : u = ~Usable(document) BY DEF Usable
<1>9. PICK s : s = [r EXCEPT !.day = today, !.saw = document, !.seeds = u, !.writes = q] OBVIOUS
<1>10. /\ s \in Call /\ s.day = today /\ s.saw = document /\ s.seeds = u /\ s.writes = q
       /\ s.tells = r.tells
  BY <1>0, <1>7, <1>8, <1>9 DEF Call
<1>11. slot' = [slot EXCEPT ![c] = s] BY <1>2, <1>4, <1>8, <1>9
<1>12. DemoTypeOK' BY <1>0, <1>3, <1>10, <1>11 DEF DemoTypeOK
<1>13. Base(s) = Read BY <1>8, <1>10 DEF Base, Read
<1>14. IF u THEN document # None => document.seedDate < today
            ELSE document # None /\ document.seedDate = today
  <2>1. CASE Usable(document) BY <2>1, <1>8 DEF Usable
  <2>2. CASE ~Usable(document)
    <3>1. document # None => document.seedDate # today /\ document.seedDate <= today
      BY <2>2 DEF Usable, DemoInv
    <3>2. document # None => document.seedDate \in Nat BY <1>0, DocumentFields DEF Days
    <3>3. document # None => document.seedDate < today BY <3>1, <3>2, <1>0
    <3> QED BY <3>3, <2>2, <1>8
  <2> QED BY <2>1, <2>2
<1>15. CopyIsSound(s)
  <2>1. Facts(Base(s)) \cup s.tells \subseteq Facts(q) BY <1>2, <1>7, <1>10, <1>13
  <2>2. today <= today BY <1>0
  <2> QED BY <2>1, <2>2, <1>6, <1>7, <1>10, <1>14 DEF CopyIsSound
<1>16. ASSUME NEW b \in Slots, slot'[b] # None PROVE CopyIsSound(slot[b])'
  <2>1. CASE b # c
    <3>1. slot'[b] = slot[b] /\ CopyIsSound(slot[b])
      BY <1>0, <1>11, <1>16, <2>1 DEF DemoInv, DemoTypeOK
    <3> QED BY <3>1, <1>3 DEF CopyIsSound, Legal, MadeBy, Base
  <2>2. CASE b = c
    <3>1. slot'[b] = s BY <1>0, <1>11, <2>2 DEF DemoTypeOK
    <3> QED BY <3>1, <1>3, <1>15 DEF CopyIsSound, Legal, MadeBy, Base
  <2> QED BY <2>1, <2>2
<1>17. document' # None => Legal(document)' /\ MadeBy(document, made)' /\ (document.seedDate <= today)'
  BY <1>3 DEF DemoInv, Legal, MadeBy
<1>18. ConfirmedIsStored' BY <1>3 DEF DemoInv, ConfirmedIsStored, Usable
<1> QED BY <1>12, <1>16, <1>17, <1>18 DEF DemoInv

LEMMA KioskCallKeeps ==
  ASSUME DemoInv, NEW c \in Slots, KioskCall(c)
  PROVE  DemoInv'
<1>0. "kiosk" \in Roles BY DEF Roles
<1>1. CASE KioskStatus(c)
  <2>1. PICK token \in 1..made : Began(c, "kiosk", KioskOpen(Read, token), Read, {})
    BY <1>1, StatusBegins
  <2>2. KioskOpen(Read, token) \in BOOLEAN BY DEF KioskOpen
  <2>3. Grown(Read, Read, {}) BY <2>1, BeganIsBounded, SameGrows
  <2> QED BY <1>0, <2>1, <2>2, <2>3, BeginKeeps
<1>2. CASE KioskUpload(c)
  <2>1. PICK token \in 1..made :
          Began(c, "kiosk", Read.kiosk # None /\ Read.kiosk.token = token,
                None, {<<"photo", made + 1>>})
    BY <1>2, KioskUploadBegins
  <2>2. (Read.kiosk # None /\ Read.kiosk.token = token) \in BOOLEAN OBVIOUS
  <2>3. {<<"photo", made + 1>>} \in SUBSET (FactKinds \X Nat)
    BY <2>1, BeganIsBounded, KindsOfFacts, OneFact
  <2> QED BY <1>0, <2>1, <2>2, <2>3, BeginKeeps
<1>3. CASE KioskAction(c)
  <2>1. PICK token \in 1..made, e \in Employees, action \in Actions,
             photo \in {p \in 1..made : <<"photo", p>> \in told} :
          Began(c, "kiosk", KioskOpen(Read, token) /\ KioskAllowed(Read, e, action),
                KioskTaken(Read, made + 1, e, action, photo), {<<"event", made + 1>>})
    BY <1>3, KioskActionBegins
  <2>2. (KioskOpen(Read, token) /\ KioskAllowed(Read, e, action)) \in BOOLEAN OBVIOUS
  <2>3. photo \in CallIds
    BY <2>1, BeganIsBounded, BoundsAreNat DEF CallIds, DemoTypeOK
  <2>4. KioskAllowed(Read, e, action) =>
          Grown(Read, KioskTaken(Read, made + 1, e, action, photo), {<<"event", made + 1>>})
    BY <2>1, <2>3, BeganIsBounded, KioskActionGrows
  <2>5. {<<"event", made + 1>>} \in SUBSET (FactKinds \X Nat)
    BY <2>1, BeganIsBounded, KindsOfFacts, OneFact
  <2> QED BY <1>0, <2>1, <2>2, <2>4, <2>5, BeginKeeps
<1>4. CASE KioskUploadReads(c) BY <1>4, UploadReadsKeeps
<1> QED BY <1>1, <1>2, <1>3, <1>4 DEF KioskCall

LEMMA WriteSeedKeeps ==
  ASSUME DemoInv, NEW c \in Slots, WriteSeed(c)
  PROVE  DemoInv'
<1> DEFINE seed == InitialState(slot[c].day)
<1>0. DemoTypeOK BY DEF DemoInv
<1>1. PICK r \in Call : r = slot[c] /\ r.seeds /\ CopyIsSound(r)
  BY <1>0 DEF WriteSeed, DemoTypeOK, DemoInv
<1>2. PICK q : q = InitialState(r.day) OBVIOUS
<1>3. /\ document' = q
      /\ raced' = (raced \/ document # r.saw)
      /\ slot' = [slot EXCEPT ![c] = [r EXCEPT !.seeds = FALSE, !.saw = q]]
      /\ UNCHANGED <<today, made, told>>
  BY <1>1, <1>2 DEF WriteSeed
<1>4. r.day \in Days /\ r.day \in Nat /\ today \in Nat /\ r.day <= today
  BY <1>0, <1>1 DEF Call, Days, DemoTypeOK, CopyIsSound
<1>5. q \in Document /\ Legal(q) /\ MadeBy(q, made) /\ q.seedDate = r.day
  BY <1>0, <1>2, <1>4, SeedIsFit DEF Fit
<1>6. q # None BY <1>0, <1>5, NoneIsNoValue
<1>7. PICK s : s = [r EXCEPT !.seeds = FALSE, !.saw = q] OBVIOUS
<1>8. /\ s \in Call /\ ~s.seeds /\ s.saw = q /\ s.day = r.day
      /\ s.writes = r.writes /\ s.tells = r.tells
  BY <1>5, <1>7 DEF Call
<1>9. slot' = [slot EXCEPT ![c] = s] BY <1>3, <1>7
<1>10. DemoTypeOK'
  <2>1. slot' \in [Slots -> Call \cup {None}] BY <1>0, <1>8, <1>9 DEF DemoTypeOK
  <2>2. raced' \in BOOLEAN BY <1>3
  <2> QED BY <1>0, <1>3, <1>5, <2>1, <2>2 DEF DemoTypeOK
<1>11. Legal(document)' /\ MadeBy(document, made)' /\ (document.seedDate <= today)'
  BY <1>3, <1>4, <1>5 DEF Legal, MadeBy
<1>12. ASSUME NEW b \in Slots, slot'[b] # None PROVE CopyIsSound(slot[b])'
  <2>1. CASE b # c
    <3>1. slot'[b] = slot[b] /\ CopyIsSound(slot[b]) BY <1>0, <1>9, <1>12, <2>1 DEF DemoInv, DemoTypeOK
    <3> QED BY <3>1, <1>3 DEF CopyIsSound, Legal, MadeBy, Base
  <2>2. CASE b = c
    <3>1. slot'[b] = s BY <1>0, <1>9, <2>2 DEF DemoTypeOK
    <3>2. Base(r) = q BY <1>1, <1>2 DEF Base
    <3>3. r.writes # None =>
            /\ Legal(r.writes) /\ MadeBy(r.writes, made) /\ r.writes.seedDate = r.day
            /\ Facts(q) \cup r.tells \subseteq Facts(r.writes)
      BY <1>1, <3>2 DEF CopyIsSound
    <3>4. CopyIsSound(s)'
      BY <1>3, <1>4, <1>5, <1>6, <1>8, <3>3 DEF CopyIsSound, Base, Legal, MadeBy
    <3> QED BY <3>1, <3>4 DEF CopyIsSound
  <2> QED BY <2>1, <2>2
<1>13. ConfirmedIsStored'
  <2>1. ASSUME ~raced, document = r.saw PROVE told = {}
    <3>1. r.saw # None => r.saw.seedDate < r.day BY <1>1 DEF CopyIsSound
    <3>2. r.saw # None => r.saw.seedDate \in Nat
      BY <1>1, DocumentFields DEF Call, Days
    <3>3. r.saw # None => r.saw.seedDate # today BY <3>1, <3>2, <1>4
    <3>4. ~Usable(document) BY <2>1, <3>3 DEF Usable
    <3> QED BY <2>1, <3>4 DEF DemoInv, ConfirmedIsStored
  <2> QED BY <1>3, <2>1 DEF ConfirmedIsStored
<1> QED BY <1>0, <1>10, <1>11, <1>12, <1>13 DEF DemoInv

LEMMA AnswerKeeps ==
  ASSUME DemoInv, NEW c \in Slots, Answer(c)
  PROVE  DemoInv'
<1>0. DemoTypeOK BY DEF DemoInv
<1>1. PICK r \in Call : r = slot[c] /\ ~r.seeds /\ CopyIsSound(r)
  BY <1>0 DEF Answer, DemoTypeOK, DemoInv
<1>2. /\ IF r.writes = None THEN UNCHANGED <<document, raced>>
         ELSE document' = r.writes /\ raced' = (raced \/ document # r.saw)
      /\ told' = IF r.day = today THEN told \cup r.tells ELSE told
      /\ slot' = [slot EXCEPT ![c] = None]
      /\ UNCHANGED <<today, made>>
  BY <1>1 DEF Answer
<1>3. /\ r.day \in Nat /\ today \in Nat /\ r.day <= today
      /\ r.writes \in Document \cup {None} /\ r.tells \in SUBSET (FactKinds \X Nat)
  BY <1>0, <1>1 DEF Call, Days, DemoTypeOK, CopyIsSound
<1>4. /\ r.writes = None => r.tells = {}
      /\ r.writes # None =>
           /\ Legal(r.writes) /\ MadeBy(r.writes, made) /\ r.writes.seedDate = r.day
           /\ Facts(r.saw) \cup r.tells \subseteq Facts(r.writes)
      /\ r.saw # None /\ r.saw.seedDate = r.day
  BY <1>1 DEF Answer, Checked, CopyIsSound, Base
<1>5. DemoTypeOK'
  <2>1. slot' \in [Slots -> Call \cup {None}] BY <1>0, <1>2 DEF DemoTypeOK
  <2>2. document' \in Document \cup {None} /\ raced' \in BOOLEAN
    BY <1>0, <1>2, <1>3 DEF DemoTypeOK
  <2>3. told' \in SUBSET (FactKinds \X Nat) BY <1>0, <1>2, <1>3 DEF DemoTypeOK
  <2> QED BY <1>0, <1>2, <2>1, <2>2, <2>3 DEF DemoTypeOK
<1>6. document' # None => Legal(document)' /\ MadeBy(document, made)' /\ (document.seedDate <= today)'
  <2>1. CASE r.writes = None
    <3>1. document' = document BY <1>2, <2>1
    <3> QED BY <3>1, <1>2 DEF DemoInv, Legal, MadeBy
  <2>2. CASE r.writes # None
    <3>1. document' = r.writes BY <1>2, <2>2
    <3> QED BY <3>1, <2>2, <1>2, <1>3, <1>4 DEF Legal, MadeBy
  <2> QED BY <2>1, <2>2
<1>7. ASSUME NEW b \in Slots, slot'[b] # None PROVE CopyIsSound(slot[b])'
  <2>1. slot'[b] = slot[b] /\ CopyIsSound(slot[b]) BY <1>0, <1>2, <1>7 DEF DemoInv, DemoTypeOK
  <2> QED BY <2>1, <1>2 DEF CopyIsSound, Legal, MadeBy, Base
<1>8. ConfirmedIsStored'
  <2>1. CASE r.writes = None
    <3>1. document' = document /\ raced' = raced /\ told' = told BY <1>2, <1>4, <2>1
    <3> QED BY <3>1, <1>2 DEF DemoInv, ConfirmedIsStored, Usable
  <2>2. CASE r.writes # None
    <3>1. document' = r.writes /\ raced' = (raced \/ document # r.saw) BY <1>2, <2>2
    <3>2. SUFFICES ASSUME ~raced, document = r.saw, told' # {}
                   PROVE  /\ r.writes # None /\ r.writes.seedDate = today
                          /\ told' \subseteq Facts(r.writes)
      BY <3>1, <1>2 DEF ConfirmedIsStored, Usable
    <3>3. told # {} => document.seedDate = today /\ told \subseteq Facts(document)
      BY <3>2 DEF DemoInv, ConfirmedIsStored, Usable
    <3>4. r.day = today BY <3>2, <3>3, <1>2, <1>4
    <3>5. told \subseteq Facts(r.saw) BY <3>2, <3>3
    <3> QED BY <2>2, <3>4, <3>5, <1>2, <1>4
  <2> QED BY <2>1, <2>2
<1> QED BY <1>0, <1>5, <1>6, <1>7, <1>8 DEF DemoInv

LEMMA DayKeeps ==
  ASSUME DemoInv, ResetDemoData \/ NextDay
  PROVE  DemoInv'
<1>0. DemoTypeOK BY DEF DemoInv
<1>1. CASE ResetDemoData
  <2>1. DemoTypeOK' BY <1>0, <1>1 DEF ResetDemoData, DemoTypeOK
  <2>2. document' = None /\ told' = {} /\ UNCHANGED <<slot, today, made>>
    BY <1>1 DEF ResetDemoData
  <2>3. ASSUME NEW c \in Slots, slot'[c] # None PROVE CopyIsSound(slot[c])'
    BY <2>2, <2>3 DEF DemoInv, CopyIsSound, Legal, MadeBy, Base
  <2> QED BY <1>0, <2>1, <2>2, <2>3 DEF DemoInv, ConfirmedIsStored
<1>2. CASE NextDay
  <2>1. /\ told' = {} /\ UNCHANGED <<document, slot, made, raced>>
        /\ today' = today + 1 /\ today \in Nat /\ today' \in Days
    BY <1>0, <1>2, BoundsAreNat DEF NextDay, DemoTypeOK, Days
  <2>2. DemoTypeOK' BY <1>0, <2>1 DEF DemoTypeOK
  <2>3. document' # None => Legal(document)' /\ MadeBy(document, made)' /\ (document.seedDate <= today)'
    <3>1. document # None => document.seedDate \in Nat
      BY <1>0, DocumentFields DEF DemoTypeOK, Days
    <3>2. document # None => document.seedDate <= today BY DEF DemoInv
    <3>3. document # None => document.seedDate <= today + 1 BY <2>1, <3>1, <3>2
    <3>4. document # None => Legal(document) /\ MadeBy(document, made) BY DEF DemoInv
    <3> QED BY <2>1, <3>3, <3>4 DEF Legal, MadeBy
  <2>4. ASSUME NEW c \in Slots, slot'[c] # None PROVE CopyIsSound(slot[c])'
    <3>1. PICK r \in Call : r = slot[c] /\ CopyIsSound(r)
      BY <1>0, <2>1, <2>4 DEF DemoInv, DemoTypeOK
    <3>2. r.day \in Nat /\ r.day <= today BY <3>1 DEF Call, Days, CopyIsSound
    <3>3. r.day <= today + 1 BY <3>2, <2>1
    <3> QED BY <2>1, <3>1, <3>3 DEF CopyIsSound, Legal, MadeBy, Base
  <2> QED BY <1>0, <2>1, <2>2, <2>3, <2>4 DEF DemoInv, ConfirmedIsStored
<1> QED BY <1>1, <1>2

LEMMA DemoStart == DemoInit => DemoInv
<1> SUFFICES ASSUME DemoInit PROVE DemoInv OBVIOUS
<1>1. 0 \in Days /\ 0 \in 0..MaxCalls BY BoundsAreNat DEF Days
<1>2. DemoTypeOK BY <1>1 DEF DemoInit, DemoTypeOK
<1> QED BY <1>2 DEF DemoInit, DemoInv, ConfirmedIsStored

LEMMA DemoStep == DemoInv /\ [DemoNext]_(demoVars) => DemoInv'
<1> SUFFICES ASSUME DemoInv, [DemoNext]_(demoVars) PROVE DemoInv' OBVIOUS
<1>1. CASE UNCHANGED demoVars
  BY <1>1 DEF demoVars, DemoInv, DemoTypeOK, CopyIsSound, Legal, MadeBy, Base, ConfirmedIsStored, Usable
<1>2. ASSUME NEW c \in Slots,
             Look(c) \/ EmployeeCall(c) \/ SupervisorCall(c) \/ KioskCall(c)
      PROVE  DemoInv'
  BY <1>2, LookKeeps, EmployeeCallKeeps, SupervisorCallKeeps, KioskCallKeeps
<1>3. ASSUME NEW c \in Slots, WriteSeed(c) \/ Answer(c) PROVE DemoInv'
  BY <1>3, WriteSeedKeeps, AnswerKeeps
<1>4. CASE ResetDemoData \/ NextDay BY <1>4, DayKeeps
<1> QED BY <1>1, <1>2, <1>3, <1>4 DEF DemoNext

LEMMA DemoAlways == DemoSpec => []DemoInv
<1> QED BY DemoStart, DemoStep, PTL DEF DemoSpec

\* The document and the copies calls work on keep the type DemoState gives them, whatever
\* routes are called, in whichever order they write, and across midnight.
THEOREM DemoTypeCorrect == DemoSpec => []DemoTypeOK
<1>1. DemoInv => DemoTypeOK BY DEF DemoInv
<1> QED BY <1>1, DemoAlways, PTL

\* A call that overlaps another loses what it stored and never leaves half of it: the stored
\* document holds one clock-in of the employee a day, and of everybody at the kiosk a legal
\* run of a day.
THEOREM DemoRecordsLegal == DemoSpec => []RecordsAreLegal
<1>1. DemoInv => RecordsAreLegal BY DEF DemoInv, RecordsAreLegal, Legal
<1> QED BY <1>1, DemoAlways, PTL

\* Without such an overlap what a call was answered to have stored is in the document until
\* midnight or the reset: every route leaves what earlier ones made, and names what it makes.
THEOREM DemoConfirmedStored == DemoSpec => []ConfirmedIsStored
<1>1. DemoInv => ConfirmedIsStored BY DEF DemoInv
<1> QED BY <1>1, DemoAlways, PTL
=============================================================================
