-------------------------- MODULE HandleSpaceProofs -------------------------
(***************************************************************************)
(* Proofs about the address book, for every set of users and handles and   *)
(* every pair of periods Cooldown < ReserveFor.                            *)
(***************************************************************************)
EXTENDS HandleSpace, TLAPS

\* The address book starts in order.
LEMMA SpaceInitInv ==
  ASSUME SpaceParameters, SpaceInit
  PROVE  SpaceInv
BY DEF SpaceParameters, SpaceInit, SpaceInv, SpaceTypeOK, OneAddressEach, RedirectsLead

\* A claim keeps it in order.
LEMMA ClaimKeeps ==
  ASSUME SpaceParameters, NEW u \in UsrIds, NEW h \in Handles, SpaceInv, Claim(u, h)
  PROVE  SpaceInv'
<1> USE DEF SpaceParameters, SpaceInv, Claim, Homeless, Available
<1>1. SpaceTypeOK'
  BY DEF SpaceTypeOK
<1>2. OneAddressEach'
  BY DEF OneAddressEach, SpaceTypeOK
<1>3. RedirectsLead'
  <2> SUFFICES ASSUME NEW k \in Handles, redirect'[k] # None
               PROVE  /\ owner'[k] = None
                      /\ \E g \in Handles : owner'[g] = redirect'[k]
                      /\ changedAt'[redirect'[k]] # None
                      /\ changedAt'[redirect'[k]] <= now'
                      /\ now' < changedAt'[redirect'[k]] + ReserveFor
    BY DEF RedirectsLead
  <2>1. k # h /\ redirect'[k] = redirect[k] /\ redirect[k] # None
    BY DEF SpaceTypeOK
  <2>2. PICK g \in Handles : owner[g] = redirect[k]
    BY <2>1 DEF RedirectsLead
  <2>3. owner'[g] = redirect'[k]
    BY <2>1, <2>2 DEF SpaceTypeOK
  <2> QED
    BY <2>1, <2>3 DEF SpaceTypeOK, RedirectsLead
<1> QED
  BY <1>1, <1>2, <1>3

\* So does a rename: the new address takes over the redirect.
LEMMA RenameKeeps ==
  ASSUME SpaceParameters, NEW u \in UsrIds, NEW old \in Handles, NEW new \in Handles,
         SpaceInv, Rename(u, old, new)
  PROVE  SpaceInv'
<1> USE DEF SpaceParameters, SpaceInv, Rename, Available
<1>0. old # new
  OBVIOUS
<1>1. SpaceTypeOK'
  BY DEF SpaceTypeOK
<1>2. OneAddressEach'
  BY <1>0 DEF OneAddressEach, SpaceTypeOK
<1>3. RedirectsLead'
  <2> SUFFICES ASSUME NEW k \in Handles, redirect'[k] # None
               PROVE  /\ owner'[k] = None
                      /\ \E g \in Handles : owner'[g] = redirect'[k]
                      /\ changedAt'[redirect'[k]] # None
                      /\ changedAt'[redirect'[k]] <= now'
                      /\ now' < changedAt'[redirect'[k]] + ReserveFor
    BY DEF RedirectsLead
  <2>1. CASE k = old
    <3>1. redirect'[k] = u /\ owner'[k] = None /\ owner'[new] = u
      BY <1>0, <2>1 DEF SpaceTypeOK
    <3>2. changedAt'[u] = now /\ now \in Nat /\ now' = now
      BY DEF SpaceTypeOK
    <3>3. now # None /\ now <= now /\ now < now + ReserveFor
      BY <3>2
    <3>4. \E g \in Handles : owner'[g] = redirect'[k]
      BY <3>1
    <3> HIDE DEF Rename, Available
    <3> QED
      BY <3>1, <3>2, <3>3, <3>4
  <2>2. CASE k # old
    <3>1. k # new /\ redirect[k] # u /\ redirect'[k] = redirect[k] /\ redirect[k] # None
      BY <2>2 DEF SpaceTypeOK
    <3>2. PICK g \in Handles : owner[g] = redirect[k]
      BY <3>1 DEF RedirectsLead
    <3>3. g # old /\ g # new /\ owner'[g] = redirect'[k]
      BY <3>1, <3>2 DEF SpaceTypeOK
    <3>4. changedAt'[redirect'[k]] = changedAt[redirect[k]]
      BY <3>1 DEF SpaceTypeOK
    <3> QED
      BY <2>2, <3>1, <3>3, <3>4 DEF SpaceTypeOK, RedirectsLead
  <2> QED
    BY <2>1, <2>2
<1> QED
  BY <1>1, <1>2, <1>3

\* And time: a redirect lapses when its period is over, not later.
LEMMA LapseKeeps ==
  ASSUME SpaceParameters, SpaceInv, Lapse
  PROVE  SpaceInv'
<1> USE DEF SpaceParameters, SpaceInv, Lapse
<1>1. SpaceTypeOK'
  BY DEF SpaceTypeOK
<1>2. OneAddressEach'
  BY DEF OneAddressEach, SpaceTypeOK
<1>3. RedirectsLead'
  BY DEF RedirectsLead, SpaceTypeOK
<1> QED
  BY <1>1, <1>2, <1>3

\* Addresses and redirects are in order in every state of the address book:
\* one address and one redirect per user, and every redirect leads somewhere.
THEOREM AddressBookInOrder == SpaceParameters => (SpaceSpec => []SpaceInv)
<1> SUFFICES ASSUME SpaceParameters PROVE SpaceSpec => []SpaceInv
  OBVIOUS
<1>1. SpaceInit => SpaceInv
  BY SpaceInitInv
<1>2. SpaceInv /\ [SpaceNext]_spaceVars => SpaceInv'
  <2> SUFFICES ASSUME SpaceInv, [SpaceNext]_spaceVars
               PROVE  SpaceInv'
    OBVIOUS
  <2>1. CASE \E u \in UsrIds, h \in Handles : Claim(u, h)
    BY <2>1, ClaimKeeps
  <2>2. CASE \E u \in UsrIds, old, new \in Handles : Rename(u, old, new)
    BY <2>2, RenameKeeps
  <2>3. CASE Lapse
    BY <2>3, LapseKeeps
  <2>4. CASE UNCHANGED spaceVars
    BY <2>4 DEF spaceVars, SpaceInv, SpaceTypeOK, OneAddressEach, RedirectsLead
  <2> QED
    BY <2>1, <2>2, <2>3, <2>4 DEF SpaceNext
<1> QED
  BY <1>1, <1>2, PTL DEF SpaceSpec

\* When reserves bind, an address that redirects to a user goes on doing so
\* until the user takes it back or renames again, or its time is over.
THEOREM OldAddressesStay ==
  SpaceParameters /\ ReserveBinds = TRUE => (SpaceSpec => OldAddressKept)
<1> SUFFICES ASSUME SpaceParameters, ReserveBinds = TRUE
             PROVE  SpaceSpec => OldAddressKept
  OBVIOUS
<1> DEFINE Ended(h, u) ==
      \/ owner'[h] = u
      \/ changedAt'[u] # changedAt[u]
      \/ changedAt[u] + ReserveFor <= now'
<1> DEFINE Kept == \A h \in Handles, u \in UsrIds :
      redirect[h] = u /\ redirect'[h] # u => Ended(h, u)
<1>1. SpaceInv /\ [SpaceNext]_spaceVars => [Kept]_spaceVars
  <2> SUFFICES ASSUME SpaceInv, SpaceNext, NEW h \in Handles, NEW u \in UsrIds,
                      redirect[h] = u, redirect'[h] # u
               PROVE  Ended(h, u)
    OBVIOUS
  <2> USE DEF SpaceParameters, SpaceInv, SpaceTypeOK
  <2>1. CASE \E v \in UsrIds, g \in Handles : Claim(v, g)
    BY <2>1 DEF Claim, Available
  <2>2. ASSUME NEW v \in UsrIds, NEW old \in Handles, NEW new \in Handles,
               Rename(v, old, new)
        PROVE  Ended(h, u)
    <3>1. h # old
      BY <2>2 DEF Rename, RedirectsLead
    <3>2. CASE h = new
      BY <2>2, <3>2 DEF Rename, Available
    <3>3. CASE h # new
      <4>1. u = v
        BY <2>2, <3>1, <3>3 DEF Rename
      <4>2. changedAt'[u] = now
        BY <2>2, <4>1 DEF Rename
      <4>3. changedAt[u] # now
        BY <2>2, <4>1 DEF Rename
      <4> QED
        BY <4>2, <4>3
    <3> QED
      BY <3>2, <3>3
  <2>3. CASE Lapse
    BY <2>3 DEF Lapse, RedirectsLead
  <2> QED
    BY <2>1, <2>2, <2>3 DEF SpaceNext
<1>2. SpaceSpec => []SpaceInv
  BY AddressBookInOrder
<1> QED
  BY <1>1, <1>2, PTL DEF SpaceSpec, OldAddressKept
=============================================================================
