------------------------- MODULE DemoSafetyProofs -------------------------
(***************************************************************************)
(* Proofs about the messages of the demo application, for any number of    *)
(* runs, texts, handshakes and messages under way: no message key seals    *)
(* two messages, restarts make no message unreadable, and a crash loses at *)
(* most one row of the history.                                            *)
(***************************************************************************)
EXTENDS DemoHandshakeProofs

-----------------------------------------------------------------------------
(* Message keys are used once *)

\* A secret is new when it is agreed on, and stays in its place.
LEMMA NumSteps ==
    ASSUME StateInv, NumInv, KeyStep
    PROVE  NumInv'
<1> DEFINE Later(s) == s[2] \in 0..secrets'
<1>0. "I" \in Parties /\ "R" \in Parties /\ "I" # "R" /\ secrets \in Nat
  BY PartyFacts, KeyTypes, Zenon
<1>1. secrets' \in {secrets, secrets + 1}
  BY Zenon DEF KeyStep, Rests, Seals1, Greets1, Establishes1, Agrees1, Takes1, Reads1
<1>2. \A s : Agreed(s) => Later(s)
  BY <1>0, <1>1 DEF Agreed
<1>3. ASSUME NEW f, Agrees1(f) PROVE Later(f.body) /\ f.body = Pending'
  BY <1>0, <1>3 DEF Agrees1, Secret
<1>4. Pending' # None => Later(Pending')
  <2>1. Pending' \in {Pending, None} \/ \E f : Agrees1(f)
    BY Zenon DEF KeyStep, Rests, Seals1, Greets1, Establishes1, Takes1, Reads1
  <2> QED BY <1>2, <1>3, <2>1, Zenon DEF NumInv
<1>5. ASSUME NEW g \in net', Sync(g, Prekey) PROVE Later(g.body)
  <2>1. g \in net \/ Agrees1(g)
    <3>1. Carries(g) /\ g.header = None
      BY <1>5, Zenon DEF Carries, Sync
    <3>2. ASSUME NEW f, Agrees1(f) PROVE g \in net \/ Agrees1(g)
      BY <3>1, <3>2, Zenon DEF Agrees1, Carried
    <3>3. CASE ~\E f : Agrees1(f)
      BY <3>1, <3>3, Zenon
      DEF KeyStep, Rests, Seals1, Greets1, Establishes1, Takes1, Reads1, Carried, Sent1
    <3> QED BY <3>2, <3>3, Zenon
  <2> QED BY <1>2, <1>3, <1>5, <2>1, Zenon DEF NumInv
<1>6. ASSUME NEW p \in Parties, Resume(p)' # None PROVE Later(SecretOf(Resume(p)'))
  <2>1. CASE Resume(p)' = Resume(p) \/ (Resume(p) # None /\ SecretOf(Resume(p)') = SecretOf(Resume(p)))
    BY <1>2, <1>6, <2>1, Zenon DEF NumInv
  <2>2. CASE \E e \in net, ct \in sealed' : Greets1(e, ct)
    <3>1. PICK e \in net, ct \in sealed' : Greets1(e, ct)
      BY <2>2, Zenon
    <3>2. SecretOf(Resume("I")') = Pending /\ Pending # None /\ Resume("R")' = Resume("R")
      BY <3>1, GreetingSealed, NoneAssumption, Zenon DEF Greets1, KeepsRow
    <3> QED BY <1>0, <1>2, <2>1, <3>2, PartyFacts, Zenon DEF NumInv
  <2>3. CASE \E e \in net : Takes1(e)
    <3>1. PICK e \in net : Takes1(e)
      BY <2>3, Zenon
    <3>2. CASE p = "R" /\ Resume("R")' = Fresh(e.body)
      <4>1. SecretOf(Resume("R")') = e.body
        BY <3>1, <3>2, FreshParts, Zenon DEF Takes1
      <4> QED BY <1>2, <3>1, <3>2, <4>1, Zenon DEF NumInv, Takes1
    <3> QED BY <1>0, <2>1, <3>1, <3>2, PartyFacts, Zenon DEF Takes1, KeepsRow
  <2>4. CASE \E e \in net : \E out : Reads1(e, out)
    BY <2>1, <2>4, PartyFacts, Zenon DEF Reads1, KeepsRow, Opened
  <2>5. CASE \E q \in Parties, ct \in sealed' : Seals1(q, ct)
    BY <2>1, <2>5, Zenon DEF Seals1, Seals, KeepsRow
  <2>6. CASE Rests \/ \E f : Agrees1(f)
    BY <2>1, <2>6, PartyFacts, Zenon DEF Rests, Agrees1, KeepsRow
  <2>7. CASE \E e \in net : Establishes1(e)
    <3>1. /\ Pending # None /\ Resume("R")' = Resume("R")
          /\ Resume("I")' = Resume("I") \/ SecretOf(Resume("I")') = Pending
      BY <2>7, Established, NoneAssumption, Zenon
    <3> QED BY <1>0, <1>2, <2>1, <3>1, PartyFacts, Zenon DEF NumInv
  <2> QED BY <2>2, <2>3, <2>4, <2>5, <2>6, <2>7, Zenon DEF KeyStep
<1>7. ASSUME NEW ct \in sealed' PROVE Later(CtSecret(ct))
  <2>1. CASE ct \in sealed
    BY <1>2, <2>1, Zenon DEF NumInv
  <2>2. CASE ct \notin sealed
    <3>1. (\E p \in Parties : Seals1(p, ct)) \/ (\E e \in net : Greets1(e, ct))
      BY <2>2, Zenon DEF KeyStep, Rests, Seals1, Greets1, Establishes1, Agrees1, Takes1, Reads1
    <3>2. \/ CtSecret(ct) = Pending /\ Pending # None
          \/ \E p \in Parties : Resume(p) # None /\ CtSecret(ct) = SecretOf(Resume(p))
      BY <1>0, <3>1, PartyFacts, InitiatorSealed, ReplySealed, GreetingSealed, NoneAssumption, Zenon DEF Seals1
    <3> QED BY <1>2, <3>2, Zenon DEF NumInv
  <2> QED BY <2>1, <2>2, Zenon
<1> QED BY <1>4, <1>5, <1>6, <1>7, Zenon DEF NumInv, Agreed

\* Only an initiator that agrees on a secret sends a PREKEY message.
LEMMA OldPrekeys ==
    ASSUME NEW e, NEW ct, Carried(net) \/ Carried(net \ {e}) \/ Sent1(ct), NEW f \in net', Sync(f, Prekey)
    PROVE  f \in net
<1>1. Carries(f) /\ f.header = None
  BY Zenon DEF Carries, Sync
<1> QED BY <1>1, Zenon DEF Carried, Sent1

LEMMA SpentSteps ==
    ASSUME StateInv, NumInv, OnceInv, KeyStep, NEW b \in sealed'
    PROVE  Spent(b)'
<1>0. /\ "I" \in Parties /\ "R" \in Parties /\ "I" # "R" /\ secrets \in Nat
      /\ b \in sealed => Spent(b) /\ CtTypes(b) /\ Agreed(CtSecret(b))
  BY PartyFacts, KeyTypes, Zenon DEF OnceInv, NumInv
<1>1. CASE Rests
  <2>1. b \in sealed /\ Resume("I")' = Resume("I") /\ Resume("R")' = Resume("R") /\ Pending' \in {Pending, None}
    BY <1>1, Zenon DEF Rests, KeepsRow
  <2>2. CtSecret(b) # None
    BY <1>0, <2>1, NoneAssumption, Zenon DEF CtTypes
  <2>3. \A f \in net' : Sync(f, Prekey) => f \in net
    BY <1>1, OldPrekeys, Zenon DEF Rests
  <2> QED BY <1>0, <2>1, <2>2, <2>3, Zenon DEF Spent
<1>2. ASSUME NEW ct \in sealed', Seals1("I", ct) PROVE Spent(b)'
  <2>1. /\ b \in sealed \/ b = ct
        /\ Resume("R")' = Resume("R") /\ Pending' = Pending /\ Resume("I") # None
    BY <1>0, <1>2, Zenon DEF Seals1, KeepsRow
  <2>2. \A f \in net' : Sync(f, Prekey) => f \in net
    BY <1>2, OldPrekeys, Zenon DEF Seals1
  <2>3. /\ ByInitiator(ct) /\ CtSecret(ct) = SecretOf(Resume("I")) /\ ct.nonce = Sent(Resume("I"))
        /\ Sent(Resume("I")) \in Nat
        /\ SecretOf(Resume("I")') = SecretOf(Resume("I")) /\ Sent(Resume("I")') = Sent(Resume("I")) + 1
    BY <1>2, InitiatorSealed, Zenon
  <2>4. CASE b \in sealed
    <3>1. b.nonce < Sent(Resume("I")) => b.nonce < Sent(Resume("I")')
      BY <1>0, <2>3, <2>4 DEF CtTypes
    <3> QED BY <1>0, <2>1, <2>2, <2>3, <2>4, <3>1, Zenon DEF Spent
  <2>5. CASE b = ct
    <3>1. ~ByResponder(b) /\ CtSecret(b) # Pending
      BY <2>1, <2>3, <2>5, OneAuthor, Zenon DEF OnceInv
    <3> QED BY <2>1, <2>3, <2>5, <3>1 DEF Spent
  <2> QED BY <2>1, <2>4, <2>5, Zenon
<1>3. ASSUME NEW e \in net, NEW ct \in sealed', Greets1(e, ct) PROVE Spent(b)'
  <2>1. (b \in sealed \/ b = ct) /\ Resume("R")' = Resume("R") /\ Pending' = None
    BY <1>3, Zenon DEF Greets1, KeepsRow
  <2>2. \A f \in net' : Sync(f, Prekey) => f \in net
    BY <1>3, OldPrekeys, Zenon DEF Greets1
  <2>3. /\ ByInitiator(ct) /\ CtSecret(ct) = Pending /\ Pending \in Secrets /\ ct.nonce = 0
        /\ SecretOf(Resume("I")') = Pending /\ Sent(Resume("I")') = 1
    BY <1>3, GreetingSealed, Zenon
  <2>4. CASE b \in sealed
    <3>1. CtSecret(b) # None
      BY <1>0, <2>4, NoneAssumption, Zenon DEF CtTypes
    <3> QED BY <1>0, <2>1, <2>2, <2>3, <2>4, <3>1, Zenon DEF Spent
  <2>5. CASE b = ct
    <3>1. ~ByResponder(b) /\ CtSecret(b) # None
      BY <2>3, <2>5, OneAuthor, NoneAssumption, Zenon
    <3> QED BY <2>1, <2>3, <2>5, <3>1 DEF Spent
  <2> QED BY <2>1, <2>4, <2>5, Zenon
<1>4. ASSUME NEW ct \in sealed', Seals1("R", ct) PROVE Spent(b)'
  <2>1. /\ b \in sealed \/ b = ct
        /\ Resume("I")' = Resume("I") /\ Pending' = Pending /\ Resume("R") # None
    BY <1>0, <1>4, Zenon DEF Seals1, KeepsRow
  <2>2. \A f \in net' : Sync(f, Prekey) => f \in net
    BY <1>4, OldPrekeys, Zenon DEF Seals1
  <2>3. /\ ByResponder(ct) /\ CtSecret(ct) = SecretOf(Resume("R")) /\ ct.nonce = NextNumber(Resume("R"))
        /\ ct.nonce \in Nat /\ SecretOf(Resume("R")') = SecretOf(Resume("R"))
        /\ SendKey(Resume("R")') # None /\ Sent(Resume("R")') = ct.nonce + 1
    BY <1>4, ReplySealed, Zenon
  <2>4. CASE b \in sealed
    <3>1. SendKey(Resume("R")) # None /\ b.nonce < Sent(Resume("R")) => b.nonce < Sent(Resume("R")')
      BY <1>0, <2>3, <2>4 DEF CtTypes, NextNumber
    <3> QED BY <1>0, <2>1, <2>2, <2>3, <2>4, <3>1, Zenon DEF Spent
  <2>5. CASE b = ct
    <3>1. ~ByInitiator(b) /\ \A f \in net : Sync(f, Prekey) => f.body # CtSecret(b)
      BY <2>1, <2>3, <2>5, OneAuthor, Zenon DEF OnceInv
    <3>2. b.nonce < Sent(Resume("R")')
      BY <2>3, <2>5
    <3> QED BY <2>1, <2>2, <2>3, <2>5, <3>1, <3>2, Zenon DEF Spent
  <2> QED BY <2>1, <2>4, <2>5, Zenon
<1>5. ASSUME NEW g, Agrees1(g) PROVE Spent(b)'
  <2>1. /\ b \in sealed /\ Resume("I")' = Resume("I") /\ Resume("R")' = Resume("R")
        /\ Pending' = Secret(secrets + 1) /\ g.body = Secret(secrets + 1)
    BY <1>5, Zenon DEF Agrees1, KeepsRow
  <2>2. CtSecret(b) # Secret(secrets + 1)
    BY <1>0, <2>1 DEF Agreed, Secret
  <2>3. \A f \in net' : Sync(f, Prekey) => f \in net \/ f.body = Secret(secrets + 1)
    BY <1>5, Zenon DEF Agrees1, Carried, Carries
  <2> QED BY <1>0, <2>1, <2>2, <2>3, Zenon DEF Spent
<1>6. ASSUME NEW e \in net, Takes1(e) PROVE Spent(b)'
  <2>1. /\ b \in sealed /\ Resume("I")' = Resume("I") /\ Pending' = Pending
        /\ Resume("R")' \in {Resume("R"), Fresh(e.body)} /\ e.body \in Secrets /\ Sync(e, Prekey)
    BY <1>6, Zenon DEF Takes1, KeepsRow
  <2>2. SecretOf(Fresh(e.body)) = e.body
    BY <2>1, FreshParts, Zenon
  <2>3. \A f \in net' : Sync(f, Prekey) => f \in net
    BY <1>6, OldPrekeys, Zenon DEF Takes1
  <2> QED BY <1>0, <2>1, <2>2, <2>3, Zenon DEF Spent
<1>7. ASSUME NEW e \in net, NEW out, Reads1(e, out) PROVE Spent(b)'
  <2>1. /\ b \in sealed /\ Resume("I")' = Resume("I") /\ Pending' = Pending /\ Resume("R") # None
        /\ SecretOf(Resume("R")') = SecretOf(Resume("R")) /\ SendKey(Resume("R")') = SendKey(Resume("R"))
    BY <1>7, Zenon DEF Reads1, KeepsRow, Opened
  <2>2. Sent(Resume("R")') = Sent(Resume("R"))
    BY <2>1, Zenon DEF Sent
  <2>3. \A f \in net' : Sync(f, Prekey) => f \in net
    BY <1>7, OldPrekeys, Zenon DEF Reads1
  <2> QED BY <1>0, <2>1, <2>2, <2>3, Zenon DEF Spent
<1>8. ASSUME NEW e \in net, Establishes1(e) PROVE Spent(b)'
  <2>1. b \in sealed /\ Carried(net)
    BY <1>8, Zenon DEF Establishes1
  <2>2. /\ Resume("R")' = Resume("R") /\ Pending' = None
        /\ Resume("I")' = Resume("I") \/ SecretOf(Resume("I")') = Pending
    BY <1>8, Established, Zenon
  <2>3. CtSecret(b) # None
    BY <1>0, <2>1, NoneAssumption, Zenon DEF CtTypes
  <2>4. \A f \in net' : Sync(f, Prekey) => f \in net
    BY <2>1, OldPrekeys, Zenon
  <2> QED BY <1>0, <2>1, <2>2, <2>3, <2>4, Zenon DEF Spent
<1> QED BY <1>1, <1>2, <1>3, <1>4, <1>5, <1>6, <1>7, <1>8, PartyFacts, Zenon DEF KeyStep

LEMMA OnceSteps ==
    ASSUME StateInv, NumInv, OnceInv, KeyStep
    PROVE  OnceInv'
<1> DEFINE s == Secret(secrets + 1)
           Prekeys1 == \A f \in net' : Sync(f, Prekey) => f \in net
           SecretR == Resume("R")' # None => Resume("R") # None /\ SecretOf(Resume("R")') = SecretOf(Resume("R"))
<1>0. /\ "I" \in Parties /\ "R" \in Parties /\ "I" # "R"
      /\ Resume("I") # None => SecretOf(Resume("I")) # None
      /\ Pending # None => Pending \in Secrets
  BY PartyFacts, KeyTypes, NoneAssumption, Zenon
<1>1. \A ct \in sealed' : Spent(ct)'
  BY SpentSteps, Zenon
<1>2. /\ \A e \in net : Sync(e, Prekey) => e.body # s
      /\ \A p \in Parties : Resume(p) # None => SecretOf(Resume(p)) # s
  <2>1. ~Agreed(s)
    BY KeyTypes DEF Agreed, Secret
  <2> QED BY <2>1, Zenon DEF NumInv
<1>3. ~(\E f : Agrees1(f)) => Prekeys1
  <2>1. ASSUME NEW f \in net', Sync(f, Prekey), ~\E g : Agrees1(g) PROVE f \in net
    <3>1. Carries(f) /\ f.header = None
      BY <2>1, Zenon DEF Carries, Sync
    <3> QED BY <2>1, <3>1, Zenon
            DEF KeyStep, Rests, Seals1, Greets1, Establishes1, Takes1, Reads1, Carried, Sent1
  <2> QED BY <2>1, Zenon
<1>4. ~(\E e \in net : Takes1(e)) => SecretR
  <2>1. \/ Rests \/ (\E f : Agrees1(f)) \/ (\E e \in net : Establishes1(e))
        \/ (\E e \in net, ct \in sealed' : Greets1(e, ct))
        => Resume("R")' = Resume("R")
    BY Zenon DEF Rests, Agrees1, Establishes1, Greets1, KeepsRow
  <2>2. (\E e \in net : \E out : Reads1(e, out)) => SecretR
    BY Zenon DEF Reads1, Opened
  <2>3. ASSUME NEW p \in Parties, NEW ct \in sealed', Seals1(p, ct) PROVE SecretR
    BY <1>0, <2>3, Zenon DEF Seals1, Seals, KeepsRow
  <2> QED BY <2>1, <2>2, <2>3, Zenon DEF KeyStep
<1>5. Resume("I")' # None => SecretOf(Resume("I")') # Pending'
  <2>1. ASSUME NEW f, Agrees1(f) PROVE Resume("I")' # None => SecretOf(Resume("I")') # Pending'
    BY <1>0, <1>2, <2>1, Zenon DEF Agrees1, KeepsRow
  <2>2. ASSUME NEW e \in net, NEW ct \in sealed', Greets1(e, ct)
        PROVE  SecretOf(Resume("I")') # Pending'
    BY <2>2, GreetingSealed, NoneAssumption, Zenon DEF Greets1
  <2>3. CASE Resume("I")' = Resume("I") /\ Pending' \in {Pending, None}
    BY <1>0, <2>3, Zenon DEF OnceInv
  <2>4. ASSUME NEW ct \in sealed', Seals1("I", ct) PROVE SecretOf(Resume("I")') # Pending'
    BY <2>4, InitiatorSealed, Zenon DEF Seals1, OnceInv
  <2>5. ASSUME NEW ct \in sealed', Seals1("R", ct) PROVE Resume("I")' = Resume("I") /\ Pending' = Pending
    BY <1>0, <2>5, Zenon DEF Seals1, KeepsRow
  <2>6. Rests \/ (\E e \in net : Takes1(e)) \/ (\E e \in net : \E out : Reads1(e, out)) =>
            Resume("I")' = Resume("I") /\ Pending' \in {Pending, None}
    BY Zenon DEF Rests, Takes1, Reads1, KeepsRow
  <2>7. ASSUME NEW e \in net, Establishes1(e)
        PROVE  Resume("I")' # None => SecretOf(Resume("I")') # Pending'
    BY <1>0, <2>7, Established, NoneAssumption, Zenon
  <2> QED BY <2>1, <2>2, <2>3, <2>4, <2>5, <2>6, <2>7, PartyFacts, Zenon DEF KeyStep
<1>6. \A e, f \in net' : Sync(e, Prekey) /\ Sync(f, Prekey) /\ e.body = f.body => e = f
  <2>1. ASSUME NEW g, Agrees1(g)
        PROVE  \A f \in net' : Sync(f, Prekey) => f \in net \/ (f = g /\ f.body = s)
    BY <2>1, Zenon DEF Agrees1, Carried, Carries
  <2> QED BY <1>2, <1>3, <2>1, Zenon DEF OnceInv
<1>7. \A e \in net' : Sync(e, Prekey) /\ Resume("R")' # None => SecretOf(Resume("R")') # e.body
  <2>1. ASSUME NEW g, Agrees1(g)
        PROVE  /\ \A f \in net' : Sync(f, Prekey) => f \in net \/ f.body = s
               /\ Resume("R")' = Resume("R")
    BY <2>1, Zenon DEF Agrees1, Carried, Carries, KeepsRow
  <2>2. ASSUME NEW e \in net, Takes1(e)
        PROVE  \A f \in net' : Sync(f, Prekey) /\ Resume("R")' # None => SecretOf(Resume("R")') # f.body
    <3>1. \A f \in net' : Sync(f, Prekey) => f \in net /\ f.body # e.body
      BY <2>2, Zenon DEF Takes1, Carried, Carries, OnceInv
    <3>2. Resume("R")' = Resume("R") \/ SecretOf(Resume("R")') = e.body
      BY <2>2, FreshParts, Zenon DEF Takes1
    <3> QED BY <3>1, <3>2, Zenon DEF OnceInv
  <2>3. CASE \E g : Agrees1(g)
    BY <1>0, <1>2, <2>1, <2>3, Zenon DEF OnceInv
  <2>4. CASE Prekeys1 /\ SecretR
    BY <2>4, Zenon DEF OnceInv
  <2> QED BY <1>3, <1>4, <2>2, <2>3, <2>4, Zenon
<1>8. \A e, f \in net' : e.header # None /\ f.header # None /\ e.ciphertext = f.ciphertext => e = f
  <2>1. ASSUME NEW ct, Sent1(ct), ct \notin sealed
        PROVE  \A e, f \in net' : e.header # None /\ f.header # None /\ e.ciphertext = f.ciphertext => e = f
    <3>1. \A f \in net' : f.header # None => f \in net \/ f.ciphertext = ct
      BY <2>1, Zenon DEF Sent1, Carries
    <3>2. \A f \in net : f.header # None => f.ciphertext \in sealed
      BY KeyTypes, Zenon
    <3> QED BY <2>1, <3>1, <3>2 DEF Sent1, OneChat, OnceInv
  <2>2. ASSUME NEW ct \in sealed', \/ \E p \in Parties : Seals1(p, ct)
                                   \/ \E e \in net : Greets1(e, ct)
        PROVE  Sent1(ct) /\ ct \notin sealed
    BY <2>2, NewKeys, Zenon DEF Seals1, Greets1
  <2>3. CASE \A f \in net' : f.header # None => f \in net
    BY <2>3, Zenon DEF OnceInv
  <2>4. ASSUME NEW g, Agrees1(g) PROVE \A f \in net' : f.header # None => f \in net
    BY <2>4, Zenon DEF Agrees1, Carried, Carries, Sync
  <2>5. \/ Rests \/ (\E e \in net : Establishes1(e)) \/ (\E e \in net : Takes1(e))
        \/ (\E e \in net : \E out : Reads1(e, out))
        => \A f \in net' : f.header # None => f \in net
    BY Zenon DEF Rests, Establishes1, Takes1, Reads1, Carried, Carries
  <2> QED BY <2>1, <2>2, <2>3, <2>4, <2>5, Zenon DEF KeyStep
<1> QED BY <1>1, <1>5, <1>6, <1>7, <1>8, Zenon DEF OnceInv

SafeInv == Safe => NumInv /\ OnceInv /\ KeyUsedOnce

LEMMA SafeInvariant == Spec => []SafeInv
<1>1. Init => SafeInv
  <2> SUFFICES ASSUME Init PROVE NumInv /\ OnceInv /\ KeyUsedOnce
    BY Zenon DEF SafeInv
  <2>1. net = {} /\ sealed = {} /\ Pending = None
    BY PartyFacts, NewAppFacts, Zenon DEF Init, Pending
  <2>2. \A p \in Parties : Resume(p) = None
    BY Zenon DEF Init, Resume, LoadSession
  <2> QED BY <2>1, <2>2, PartyFacts, Zenon DEF NumInv, OnceInv, KeyUsedOnce
<1>2. ASSUME StateInv, SavedIsCurrent, SafeInv, [Next]_vars PROVE SafeInv'
  <2>1. Step /\ setting' = setting
    BY <1>2, Steps, Zenon DEF Next, vars
  <2>2. ASSUME Safe' PROVE NumInv' /\ OnceInv' /\ KeyUsedOnce'
    <3>0. Safe /\ Saved
      BY <1>2, <2>1, <2>2, StaysSafe, Zenon DEF Saved
    <3>1. Safe /\ KeyStep
      BY <1>2, <2>1, <3>0, KeySteps, Zenon
    <3>2. ASSUME NEW a \in sealed', NEW b \in sealed', a.key = b.key PROVE a = b
      <4>1. (a \in sealed /\ b \in sealed) => a = b
        BY <1>2, <3>1, <3>2, Zenon DEF SafeInv, KeyUsedOnce
      <4>2. ASSUME NEW ct \in sealed', \/ \E p \in Parties : Seals1(p, ct)
                                       \/ \E e \in net : Greets1(e, ct)
            PROVE  (\A c \in sealed : c.key # ct.key) /\ sealed' = sealed \union {ct}
        BY <1>2, <3>1, <4>2, NewKeys, Zenon DEF Seals1, Greets1, SafeInv
      <4>3. CASE sealed' = sealed
        BY <4>1, <4>3, Zenon
      <4>4. CASE \E ct \in sealed' : (\A c \in sealed : c.key # ct.key) /\ sealed' = sealed \union {ct}
        BY <3>2, <4>1, <4>4
      <4>5. \/ Rests \/ (\E e \in net : Establishes1(e)) \/ (\E g : Agrees1(g))
            \/ (\E e \in net : Takes1(e)) \/ (\E e \in net : \E out : Reads1(e, out))
            => sealed' = sealed
        BY Zenon DEF Rests, Establishes1, Takes1, Reads1, Agrees1
      <4> QED BY <3>1, <4>2, <4>3, <4>4, <4>5, Zenon DEF KeyStep
    <3> QED BY <1>2, <3>1, <3>2, NumSteps, OnceSteps, Zenon DEF SafeInv, KeyUsedOnce
  <2> QED BY <2>2, Zenon DEF SafeInv
<1> QED BY <1>1, <1>2, StateInvariant, SessionsAreSaved, PTL DEF Spec

\* No two different ciphertexts are ever sent under one message key, in any
\* number of runs of the two processes, restarts and new handshakes included,
\* until a process does not save the session after sending a message, because
\* it is killed or because the save fails (handle_command, handle_direct).
THEOREM KeysUsedOnce == Spec => [](~Ever("unsaved", Parties) => KeyUsedOnce)
<1>1. SafeInv => (~Ever("unsaved", Parties) => KeyUsedOnce)
  BY Zenon DEF SafeInv, Safe
<1> QED BY <1>1, SafeInvariant, PTL

-----------------------------------------------------------------------------
(* Messages under way, where every session uses the right keys as well:    *)
(* the responder's row can still open each of them.                        *)

\* The responder has moved to a message that was sent, and not beyond it.
LastRead ==
    IsJoined(Resume("R")) =>
        \E ct \in sealed : /\ ByInitiator(ct) /\ CtSecret(ct) = SecretOf(Resume("R"))
                           /\ Read(Resume("R")) = ct.nonce + 1
ToRead(f) ==
    /\ f.header # None /\ ByInitiator(f.ciphertext)
    /\ Resume("R") # None /\ CtSecret(f.ciphertext) = SecretOf(Resume("R"))
ReadInv ==
    /\ Resume("R") # None => LastRead
    /\ \A f \in net : ToRead(f) => Unread(Resume("R"), f.ciphertext.nonce)

LEMMA UnreadAfter ==
    ASSUME NEW r, IsResponder(r), NEW n \in Nat, IsJoined(r) => Read(r) <= n
    PROVE  Unread(r, n)
BY DEF Unread, FirstRead, IsResponder

\* A new message of the initiator has a number the responder has not reached.
LEMMA NewIsUnread ==
    ASSUME StateInv, OnceInv, ReadInv, NEW ct, Seals1("I", ct) \/ \E e \in net : Greets1(e, ct),
           Resume("R") # None, CtSecret(ct) = SecretOf(Resume("R"))
    PROVE  Unread(Resume("R"), ct.nonce)
<1>1. IsResponder(Resume("R")) /\ \A b \in sealed : b.nonce \in Nat /\ Spent(b)
  BY KeyTypes, Zenon DEF OnceInv, CtTypes
<1>2. CASE Seals1("I", ct)
  <2>1. CtSecret(ct) = SecretOf(Resume("I")) /\ ct.nonce = Sent(Resume("I")) /\ ct.nonce \in Nat
        /\ Resume("I") # None
    BY <1>2, InitiatorSealed, Zenon DEF Seals1
  <2>2. ASSUME IsJoined(Resume("R")) PROVE Read(Resume("R")) <= ct.nonce
    <3>1. PICK b \in sealed : ByInitiator(b) /\ CtSecret(b) = SecretOf(Resume("R")) /\ Read(Resume("R")) = b.nonce + 1
      BY <2>2, Zenon DEF ReadInv, LastRead
    <3>2. b.nonce < Sent(Resume("I"))
      BY <1>1, <2>1, <3>1, Zenon DEF Spent
    <3> QED BY <1>1, <2>1, <3>1, <3>2
  <2> QED BY <1>1, <2>1, <2>2, UnreadAfter, Zenon
<1>3. ASSUME NEW e \in net, Greets1(e, ct) PROVE Unread(Resume("R"), ct.nonce)
  <2>1. CtSecret(ct) = Pending /\ ct.nonce = 0
    BY <1>3, GreetingSealed, Zenon
  <2>2. ~IsJoined(Resume("R"))
    BY <1>1, <2>1, Zenon DEF ReadInv, LastRead, Spent
  <2>3. ct.nonce \in Nat
    BY <2>1
  <2> QED BY <1>1, <2>2, <2>3, UnreadAfter, Zenon
<1> QED BY <1>2, <1>3, Zenon

\* The responder reads what the initiator sent.
LEMMA ReadAuthor ==
    ASSUME StateInv, NEW e \in net, NEW out, Reads1(e, out)
    PROVE  ByInitiator(e.ciphertext)
<1> DEFINE s == SecretOf(Resume("R"))
           a == e.ciphertext
<1>1. a \in sealed /\ s \in Secrets
  BY KeyTypes, Zenon DEF Reads1, ChatOK
<1>2. ByResponder(a) => a.key.chain = Root2(CtSecret(a))
  BY AuthorShape, Zenon DEF CtShape
<1>3. CtSecret(a) = s /\ a.key.chain = Root1(s, Rk(s))
  BY Zenon DEF Reads1, Opened
<1>4. ByInitiator(a) \/ ByResponder(a)
  BY <1>1, Zenon DEF StateInv
<1> HIDE DEF s, a
<1>5. Rk(s) \in ResponderKeys
  BY <1>1, KeyFacts, Zenon
<1>6. Root1(s, Rk(s)) # Root2(s)
  BY <1>1, <1>5, RootFacts, Zenon
<1> QED BY <1>2, <1>3, <1>4, <1>6, Zenon DEF a

\* Reading one message leaves the keys of the others: none of them has its number.
LEMMA OthersUnread ==
    ASSUME StateInv, OnceInv, KeyUsedOnce, PairedInv, ReadInv,
           NEW e \in net, NEW out, Reads1(e, out), NEW f \in net \ {e}, ToRead(f)
    PROVE  Unread(out.ratchet, f.ciphertext.nonce)
<1> DEFINE s == SecretOf(Resume("R"))
           a == e.ciphertext
           b == f.ciphertext
<1>1. /\ e.header # None /\ f.header # None /\ a \in sealed /\ b \in sealed
      /\ ByInitiator(b) /\ CtSecret(b) = s /\ s \in Secrets /\ b.nonce \in Nat
  BY KeyTypes, Zenon DEF Reads1, ChatOK, ToRead, CtTypes
<1>2. Opened(Resume("R"), a, out)
  BY Zenon DEF Reads1
<1>3. ByInitiator(a)
  BY ReadAuthor, Zenon
<1>4. ASSUME NEW c \in sealed, ByInitiator(c), CtSecret(c) = s
      PROVE  c.key = [chain |-> Root1(s, Rk(s)), index |-> c.nonce]
  <2>1. c.key.chain = Root1(s, Rk(s))
    BY <1>4, Zenon DEF PairedInv
  <2>2. PICK public \in ResponderKeys :
            CtShape(c, CtSecret(c), Root1(CtSecret(c), public), Ik(CtSecret(c)), c.nonce, c.text)
    BY <1>4, AuthorShape, Zenon
  <2> QED BY <2>1, <2>2, Zenon DEF CtShape
<1>5. a.nonce # b.nonce
  <2> SUFFICES ASSUME a.nonce = b.nonce PROVE FALSE
    BY Zenon
  <2>1. a.key = b.key
    BY <1>1, <1>2, <1>3, <1>4, Zenon DEF Opened
  <2>2. a = b
    BY <1>1, <2>1, Zenon DEF KeyUsedOnce
  <2> QED BY <1>1, <2>2, Zenon DEF OnceInv
<1>6. Unread(Resume("R"), b.nonce)
  BY Zenon DEF ReadInv
<1> QED BY <1>1, <1>2, <1>5, <1>6, Zenon DEF Opened

LEMMA ReadSteps ==
    ASSUME StateInv, OnceInv, KeyUsedOnce, PairedInv, ReadInv, KeyStep
    PROVE  ReadInv'
<1>0. "I" \in Parties /\ "R" \in Parties /\ "I" # "R" /\ \A b \in sealed : b.nonce \in Nat
  BY PartyFacts, KeyTypes, Zenon DEF CtTypes
<1>1. sealed \subseteq sealed'
  BY Zenon DEF KeyStep, Rests, Seals1, Greets1, Establishes1, Agrees1, Takes1, Reads1
<1>2. ASSUME Resume("R")' = Resume("R"),
             \A f \in net' : f.header # None => f \in net \/ (ToRead(f) => Unread(Resume("R"), f.ciphertext.nonce))
      PROVE  ReadInv'
  BY <1>1, <1>2, Zenon DEF ReadInv, LastRead, ToRead
<1>3. CASE Rests \/ \E e \in net : Establishes1(e)
  <2>1. Resume("R")' = Resume("R") /\ \A f \in net' : f.header # None => f \in net
    BY <1>3, Zenon DEF Rests, Establishes1, KeepsRow, Carried, Carries
  <2> QED BY <1>2, <2>1, Zenon
<1>4. ASSUME NEW g, Agrees1(g) PROVE ReadInv'
  <2>1. Resume("R")' = Resume("R") /\ \A f \in net' : f.header # None => f \in net
    BY <1>4, Zenon DEF Agrees1, KeepsRow, Carried, Carries, Sync
  <2> QED BY <1>2, <2>1, Zenon
<1>5. ASSUME NEW ct, Seals1("I", ct) \/ \E e \in net : Greets1(e, ct) PROVE ReadInv'
  <2>1. Resume("R")' = Resume("R") /\ Sent1(ct)
    BY <1>0, <1>5, Zenon DEF Seals1, Greets1, KeepsRow
  <2>2. \A f \in net' : f.header # None => f \in net \/ f.ciphertext = ct
    BY <2>1, Zenon DEF Sent1, Carries
  <2>3. Resume("R") # None /\ CtSecret(ct) = SecretOf(Resume("R")) => Unread(Resume("R"), ct.nonce)
    BY <1>5, NewIsUnread, Zenon
  <2> QED BY <1>2, <2>1, <2>2, <2>3, Zenon DEF ToRead
<1>6. ASSUME NEW ct, Seals1("R", ct) PROVE ReadInv'
  <2>1. /\ ByResponder(ct) /\ SecretOf(Resume("R")') = SecretOf(Resume("R"))
        /\ IsJoined(Resume("R")) /\ IsJoined(Resume("R")')
        /\ Read(Resume("R")') = Read(Resume("R")) /\ Kept(Resume("R")') = Kept(Resume("R"))
    BY <1>6, ReplySealed, Zenon
  <2>2. Resume("R") # None /\ \A f \in net' : f.header # None => f \in net \/ ~ByInitiator(f.ciphertext)
    BY <1>6, <2>1, OneAuthor, Zenon DEF Seals1, Sent1, Carries
  <2>3. ~IsFresh(Resume("R")) /\ ~IsFresh(Resume("R")')
    BY <2>1, FreshParts, Zenon DEF IsFresh
  <2>4. \A n : Unread(Resume("R"), n) => Unread(Resume("R")', n)
    BY <2>1, <2>3, Zenon DEF Unread, FirstRead
  <2>5. \A f \in net' : ToRead(f)' => f \in net /\ ToRead(f)
    BY <2>1, <2>2, Zenon DEF ToRead
  <2>6. LastRead'
    BY <1>1, <2>1, <2>2, Zenon DEF ReadInv, LastRead
  <2> QED BY <2>4, <2>5, <2>6, Zenon DEF ReadInv, ToRead
<1>7. ASSUME NEW e \in net, Takes1(e) PROVE ReadInv'
  <2>1. \A f \in net' : f.header # None => f \in net
    BY <1>7, Zenon DEF Takes1, Carried, Carries
  <2>2. CASE Resume("R")' = Resume("R")
    BY <1>2, <2>1, <2>2, Zenon
  <2>3. CASE Resume("R")' = Fresh(e.body)
    <3>1. IsResponder(Resume("R")') /\ ~IsJoined(Resume("R")')
      BY <1>7, <2>3, FreshParts, Zenon DEF Takes1, IsResponder
    <3>2. \A n \in Nat : Unread(Resume("R")', n)
      BY <3>1, UnreadAfter, Zenon
    <3>3. \A f \in net' : ToRead(f)' => f.ciphertext.nonce \in Nat
      BY Zenon DEF ToRead, ByInitiator, CtTypes
    <3> QED BY <3>1, <3>2, <3>3, Zenon DEF ReadInv, LastRead
  <2> QED BY <1>7, <2>2, <2>3, Zenon DEF Takes1
<1>8. ASSUME NEW e \in net, NEW out, Reads1(e, out) PROVE ReadInv'
  <2>1. /\ \A f \in net' : f.header # None => f \in net \ {e}
        /\ Opened(Resume("R"), e.ciphertext, out) /\ Resume("R") # None
        /\ Resume("R")' \in {Resume("R"), out.ratchet}
    BY <1>8, Zenon DEF Reads1, Carried, Carries
  <2>2. CASE Resume("R")' = Resume("R")
    BY <1>2, <2>1, <2>2, Zenon
  <2>3. CASE Resume("R")' = out.ratchet
    <3>1. SecretOf(Resume("R")') = SecretOf(Resume("R"))
      BY <2>1, <2>3, Zenon DEF Opened
    <3>2. \A f \in net' : ToRead(f)' => f \in net \ {e} /\ ToRead(f)
      BY <2>1, <3>1, Zenon DEF ToRead
    <3>3. \A f \in net' : ToRead(f)' => Unread(Resume("R")', f.ciphertext.nonce)
      BY <1>8, <2>3, <3>2, OthersUnread, Zenon
    <3>4. LastRead'
      <4>1. CASE Read(out.ratchet) = e.ciphertext.nonce + 1
        <5>1. e.ciphertext \in sealed /\ CtSecret(e.ciphertext) = SecretOf(Resume("R"))
          BY <1>8, <2>1, KeyTypes, Zenon DEF Reads1, ChatOK, Opened
        <5>2. ByInitiator(e.ciphertext)
          BY <1>8, ReadAuthor, Zenon
        <5> QED BY <1>1, <2>3, <3>1, <4>1, <5>1, <5>2, Zenon DEF LastRead
      <4>2. CASE IsJoined(Resume("R")) /\ Read(out.ratchet) = Read(Resume("R"))
        BY <1>1, <2>1, <2>3, <3>1, <4>2, Zenon DEF LastRead, ReadInv
      <4> QED BY <2>1, <4>1, <4>2, Zenon DEF Opened
    <3> QED BY <3>3, <3>4, Zenon DEF ReadInv
  <2> QED BY <2>1, <2>2, <2>3, Zenon
<1> QED BY <1>3, <1>4, <1>5, <1>6, <1>7, <1>8, PartyFacts, Zenon DEF KeyStep

ReadableInv == Straight /\ Safe => ReadInv

LEMMA ReadableInvariant == Spec => []ReadableInv
<1>1. Init => ReadableInv
  <2> SUFFICES ASSUME Init PROVE ReadInv
    BY Zenon DEF ReadableInv
  <2>1. net = {} /\ Resume("R") = None
    BY PartyFacts, Zenon DEF Init, Resume, LoadSession
  <2> QED BY <2>1, Zenon DEF ReadInv
<1>2. ASSUME StateInv, SavedIsCurrent, SafeInv, HandshakeInv, ReadableInv, [Next]_vars PROVE ReadableInv'
  <2>1. Step /\ setting' = setting
    BY <1>2, Steps, Zenon DEF Next, vars
  <2>2. ASSUME ReadableInv, Safe', Straight' PROVE ReadInv'
    <3>0. Safe /\ Saved
      BY <1>2, <2>1, <2>2, StaysSafe, Zenon DEF Saved
    <3>1. Safe /\ KeyStep
      BY <1>2, <2>1, <3>0, KeySteps, Zenon
    <3>2. OnceInv /\ KeyUsedOnce /\ PairedInv /\ ReadInv
      BY <1>2, <2>1, <2>2, <3>1, StaysStraight, Zenon DEF SafeInv, HandshakeInv, ReadableInv
    <3> QED BY <1>2, <3>1, <3>2, ReadSteps, Zenon
  <2> QED BY <1>2, <2>1, <2>2, Zenon DEF ReadableInv
<1> QED BY <1>1, <1>2, StateInvariant, SessionsAreSaved, SafeInvariant, HandshakeInvariant, PTL DEF Spec

LEMMA AlwaysSaved ==
    ASSUME NEW p \in Parties, ~Ever("unsaved", Parties)
    PROVE  <<"unsaved", Me(p)>> \notin mishaps
<1>1. <<"unsaved", Me(p)>>[1] = "unsaved" /\ <<"unsaved", Me(p)>>[2][1] = p
  BY DEF Me
<1> QED BY <1>1, Zenon DEF Ever

\* Whatever the initiator has sent to the running responder under the secret of
\* the responder's session, that session or the one it would resume opens,
\* unless too many keys would be skipped: saving after a message key was used
\* never makes another message unreadable (ChatSession::persist,
\* session::resume, decrypt in ratchet.rs).  As above, this is until a process
\* does not save after sending.
THEOREM RestartsLoseNoMessage == Spec => [](~Ever("unsaved", Parties) => ReadableAcrossRestarts)
<1>1. ASSUME StateInv, SavedIsCurrent, HandshakeInv, ReadableInv, ~Ever("unsaved", Parties)
      PROVE  ReadableAcrossRestarts
  <2> SUFFICES ASSUME ~Ever("misread", Parties), NEW e \in net,
                      e.ciphertext # None, e.to = Me("R"), SessionOf("R") # None,
                      SecretOf(SessionOf("R")) = e.ciphertext.key.chain.secret
               PROVE  SessionDecrypt(SessionOf("R"), e).error \in {"none", "TooManySkipped"}
    BY Zenon DEF ReadableAcrossRestarts
  <2> DEFINE r == Resume("R")
             ct == e.ciphertext
  <2>1. SessionOf("R") = r /\ r # None
    <3>1. <<"unsaved", Me("R")>> \notin mishaps
      BY <1>1, PartyFacts, AlwaysSaved, Zenon
    <3> QED BY <1>1, <3>1, PartyFacts, Zenon DEF SessionOf, SavedIsCurrent
  <2>2. ChatOK(e) /\ e.from[1] = "I"
    BY <1>1, PartyFacts, Zenon DEF StateInv, EnvOK, SyncOK, Sync, Envelopes, Me
  <2>3. /\ e.header # None /\ e.header = ct.aad /\ ByInitiator(ct) /\ ct \in sealed
        /\ CtSecret(ct) = SecretOf(r) /\ IsResponder(r)
    BY <1>1, <2>1, <2>2, KeyTypes, Zenon DEF ChatOK, AuthorOK, CtSecret
  <2>4. PairedInv /\ ReadInv
    BY <1>1, Zenon DEF HandshakeInv, ReadableInv, Straight, Safe
  <2>5. ct.key.chain = Root1(SecretOf(r), Rk(SecretOf(r))) /\ Unread(r, ct.nonce)
    BY <2>1, <2>3, <2>4, Zenon DEF PairedInv, ReadInv, ToRead
  <2> QED BY <2>1, <2>3, <2>5, ResponderReads, Zenon
<1> QED BY <1>1, StateInvariant, SessionsAreSaved, HandshakeInvariant, ReadableInvariant, PTL

-----------------------------------------------------------------------------
(* Texts that were shown and stored *)

Adds(f, p, x) == [f EXCEPT ![p] = f[p] \union {x}]

\* What the chat branch does to both sets: the text is shown before it is stored.
Displays(p, t) ==
    \/ UNCHANGED <<shown, rows>>
    \/ /\ shown' = Adds(shown, p, <<run[p], t>>) /\ status[p] = "up" /\ run' = run
       /\ \/ rows' = rows /\ status'[p] # "up"
          \/ rows' = Adds(rows, p, t)

TextsOK == shown \in [Parties -> SUBSET (Nat \X Ids)] /\ rows \in [Parties -> SUBSET Ids]
HistInv == TextsOK /\ CrashLosesOneRow /\ \A p \in Parties : \A m \in shown[p] : m[1] <= run[p]

LEMMA OnChatDisplays ==
    ASSUME StateInv, TextsOK, NEW p \in Parties, NEW e \in net, NEW cut \in 0..3, OnChat(p, e, cut)
    PROVE  \E t \in Ids : Displays(p, t)
<1> DEFINE out == SessionDecrypt(SessionOf(p), e)
<1>1. /\ Arrived(p, e) /\ Accepts(p, e) /\ e.marker = OtherByte /\ run' = run /\ status[p] = "up"
  BY Zenon DEF OnChat, Arrived
<1>2. CASE out.error # "none"
  <2>1. UNCHANGED <<shown, rows>>
    BY <1>2, Zenon DEF OnChat
  <2> QED BY <2>1, Names, Zenon DEF Displays
<1>3. CASE out.error = "none"
  <2>1. out.text \in Ids
    BY <1>1, <1>3, ChatOpens, Zenon DEF Opened, ByInitiator, CtTypes
  <2>2. /\ shown' = [shown EXCEPT ![p] = @ \union (IF cut >= 2 THEN {<<run[p], out.text>>} ELSE {})]
        /\ rows' = IF cut >= 3 THEN InsertMessage(p, out.text) ELSE rows
        /\ cut # 3 => status' = [status EXCEPT ![p] = "off"]
    BY <1>3, Zenon DEF OnChat, Handled, Ends
  <2> HIDE DEF out
  <2>3. CASE cut \in {0, 1}
    <3>1. (IF cut >= 2 THEN {<<run[p], out.text>>} ELSE {}) = {} /\ ~(cut >= 3)
      BY <2>3
    <3>2. shown[p] \union {} = shown[p]
      BY Zenon
    <3>3. shown' = [shown EXCEPT ![p] = shown[p]] /\ rows' = rows
      BY <2>2, <3>1, <3>2, Zenon
    <3> QED BY <2>1, <3>3, Zenon DEF TextsOK, Displays
  <2>4. CASE cut = 2
    <3>1. shown' = Adds(shown, p, <<run[p], out.text>>) /\ rows' = rows /\ status' = [status EXCEPT ![p] = "off"]
      BY <2>2, <2>4 DEF Adds
    <3>2. status'[p] # "up"
      BY <3>1, Zenon DEF StateInv
    <3> QED BY <1>1, <2>1, <3>1, <3>2, Zenon DEF Displays
  <2>5. CASE cut = 3
    <3>1. shown' = Adds(shown, p, <<run[p], out.text>>) /\ rows' = Adds(rows, p, out.text)
      BY <2>2, <2>5 DEF Adds, InsertMessage
    <3> QED BY <1>1, <2>1, <3>1, Zenon DEF Displays
  <2> QED BY <2>3, <2>4, <2>5
<1> QED BY <1>2, <1>3, Zenon

LEMMA TextsStep ==
    ASSUME StateInv, TextsOK, [Next]_vars
    PROVE  UNCHANGED <<shown, rows>> \/ \E p \in Parties, t \in Ids : Displays(p, t)
<1>1. CASE \E p \in Parties, e \in net, cut \in 0..3 : OnChat(p, e, cut)
  BY <1>1, OnChatDisplays, Zenon
<1>2. CASE UNCHANGED vars
  BY <1>2, Zenon DEF vars
<1>3. ASSUME NEW p \in Parties,
             Start(p) \/ Quit(p) \/ PeerConnected(p) \/ CommandFails(p) \/ \E e \in net : Lose(e)
      PROVE  UNCHANGED <<shown, rows>>
  BY <1>3, Zenon DEF Start, Quit, PeerConnected, CommandFails, Lose
<1>4. ASSUME NEW p \in Parties, NEW cut \in 0..2, NEW byte \in setting.bytes, NEW saved \in BOOLEAN,
             Command(p, cut, byte, saved)
      PROVE  UNCHANGED <<shown, rows>>
  BY <1>4, Zenon DEF Command
<1>5. ASSUME NEW p \in Parties, NEW e \in net,
             \/ DirectFails(p, e) \/ OnBundleReq(p, e) \/ OnBundle(p, e) \/ OnGroupKey(p, e)
             \/ \E cut \in 0..2 : OnPrekey(p, e, cut)
      PROVE  UNCHANGED <<shown, rows>>
  BY <1>5, Zenon DEF DirectFails, OnBundleReq, OnBundle, OnPrekey, OnGroupKey
<1>6. ASSUME NEW p \in Parties, NEW e \in net, NEW cut \in 0..4, NEW byte \in setting.bytes,
             NEW saved \in BOOLEAN, OnRatchetPub(p, e, cut, byte, saved)
      PROVE  UNCHANGED <<shown, rows>>
  BY <1>6, Zenon DEF OnRatchetPub
<1> QED BY <1>1, <1>2, <1>3, <1>4, <1>5, <1>6, PartyFacts, Zenon DEF Next, Direct

\* A run begins, ends, or goes on.
LEMMA RunsStep ==
    ASSUME StateInv, Step, NEW p \in Parties
    PROVE  /\ run[p] \in Nat
           /\ \/ run'[p] = run[p] + 1
              \/ run'[p] = run[p] /\ (status'[p] = "up" => status[p] = "up")
<1>1. /\ run \in [Parties -> Nat] /\ status \in [Parties -> Statuses]
      /\ run' \in [Parties -> Nat] /\ status' \in [Parties -> Statuses]
  BY StepKeeps, Zenon DEF StateInv
<1>2. CASE Idle
  BY <1>1, <1>2, Zenon DEF Idle
<1>3. CASE \E q \in Parties : Starts(q)
  BY <1>1, <1>3, Zenon DEF Starts
<1>4. CASE \E q \in Parties : Frame(q)
  <2>1. PICK q \in Parties : status[q] = "up" /\ run' = run /\ status' = [status EXCEPT ![q] = status'[q]]
    BY <1>4, Zenon DEF Frame
  <2> QED BY <1>1, <2>1, Zenon
<1> QED BY <1>2, <1>3, <1>4, PartyFacts, Zenon
        DEF Step, HandlesRequest, Stopped, Passes, Says, AsksBundle, AnswersBundle, SendsPrekey,
            TakesPrekey, Greets, Reads

LEMMA HistKept ==
    ASSUME StateInv, HistInv, [Next]_vars
    PROVE  HistInv'
<1>1. Step /\ TextsOK
  BY Steps, Zenon DEF HistInv
<1>2. ASSUME NEW p \in Parties, shown'[p] = shown[p], Missing(p)' \subseteq Missing(p)
      PROVE  /\ \A m \in shown'[p] : m[1] <= run'[p]
             /\ \A a, b \in Missing(p)' : /\ a[1] = run'[p] => status'[p] # "up"
                                          /\ a[1] = b[1] => a = b
  <2>1. \A m \in shown[p] : m[1] \in Nat /\ m[1] <= run[p]
    BY <1>1 DEF TextsOK, HistInv
  <2>2. \A a, b \in Missing(p) : (a[1] = run[p] => status[p] # "up") /\ (a[1] = b[1] => a = b)
    BY Zenon DEF HistInv, CrashLosesOneRow
  <2>3. Missing(p) \subseteq shown[p]
    BY Zenon DEF Missing
  <2>4. /\ run[p] \in Nat
        /\ \/ run'[p] = run[p] + 1
           \/ run'[p] = run[p] /\ (status'[p] = "up" => status[p] = "up")
    BY <1>1, RunsStep, Zenon
  <2>5. /\ \A m \in shown[p] : m[1] <= run'[p] /\ (m[1] = run'[p] => run'[p] = run[p])
        /\ run'[p] = run[p] /\ status'[p] = "up" => status[p] = "up"
    BY <2>1, <2>4
  <2> QED BY <1>2, <2>2, <2>3, <2>5, Zenon
<1>3. CASE UNCHANGED <<shown, rows>>
  <2>1. TextsOK' /\ \A p \in Parties : shown'[p] = shown[p] /\ Missing(p)' = Missing(p)
    BY <1>1, <1>3, Zenon DEF TextsOK, Missing
  <2> QED BY <1>2, <2>1, Zenon DEF HistInv, CrashLosesOneRow
<1>4. ASSUME NEW q \in Parties, NEW t \in Ids, Displays(q, t), ~UNCHANGED <<shown, rows>>
      PROVE  HistInv'
  <2> DEFINE new == <<run[q], t>>
  <2>1. /\ shown' = Adds(shown, q, new) /\ status[q] = "up" /\ run' = run
        /\ \/ rows' = rows /\ status'[q] # "up"
           \/ rows' = Adds(rows, q, t)
    BY <1>4, Zenon DEF Displays
  <2>2. run[q] \in Nat /\ new \in Nat \X Ids /\ new[1] = run[q] /\ new[2] = t
    BY <1>1, RunsStep, Zenon
  <2> HIDE DEF new
  <2>3. TextsOK' /\ \A p \in Parties \ {q} : shown'[p] = shown[p] /\ Missing(p)' = Missing(p)
    BY <1>1, <2>1, <2>2 DEF TextsOK, Adds, Missing
  <2>4. /\ \A m \in shown'[q] : m[1] <= run'[q]
        /\ \A a, b \in Missing(q)' : /\ a[1] = run'[q] => status'[q] # "up"
                                     /\ a[1] = b[1] => a = b
    <3>1. shown'[q] = shown[q] \union {new}
      BY <1>1, <2>1, Zenon DEF TextsOK, Adds
    <3>2. \A m \in shown'[q] : m[1] <= run'[q]
      BY <2>1, <2>2, <3>1 DEF HistInv
    <3>3. \A a, b \in Missing(q) : a[1] # run[q] /\ (a[1] = b[1] => a = b)
      BY <2>1, Zenon DEF HistInv, CrashLosesOneRow
    <3>4. CASE rows' = Adds(rows, q, t)
      <4>1. rows'[q] = rows[q] \union {t}
        BY <1>1, <3>4, Zenon DEF TextsOK, Adds
      <4>2. Missing(q)' \subseteq Missing(q)
        BY <2>2, <3>1, <4>1, Zenon DEF Missing
      <4> QED BY <2>1, <3>2, <3>3, <4>2, Zenon
    <3>5. CASE rows' = rows /\ status'[q] # "up"
      <4>1. Missing(q)' \subseteq Missing(q) \union {new}
        BY <3>1, <3>5, Zenon DEF Missing
      <4> QED BY <2>2, <3>2, <3>3, <3>5, <4>1, Zenon
    <3> QED BY <2>1, <3>4, <3>5, Zenon
  <2>5. ASSUME NEW p \in Parties
        PROVE  /\ \A m \in shown'[p] : m[1] <= run'[p]
               /\ \A a, b \in Missing(p)' : /\ a[1] = run'[p] => status'[p] # "up"
                                            /\ a[1] = b[1] => a = b
    <3>1. CASE p = q
      BY <2>4, <3>1, Zenon
    <3>2. CASE p # q
      BY <1>2, <2>3, <3>2, Zenon
    <3> QED BY <3>1, <3>2, Zenon
  <2> QED BY <2>3, <2>5, Zenon DEF HistInv, CrashLosesOneRow
<1> QED BY <1>1, <1>3, <1>4, TextsStep, Zenon

LEMMA HistInit == Init => HistInv
  BY Zenon DEF Init, HistInv, TextsOK, CrashLosesOneRow, Missing

LEMMA HistInvariant == Spec => []HistInv
  BY StateInvariant, HistInit, HistKept, PTL DEF Spec

\* Types of the two processes, their rows and the requests under way, and every
\* saved row loads (App, main.rs; SessionState, session_state.rs): for any
\* surroundings and any number of runs.
THEOREM DemoTypes == Spec => []TypeOK
<1>1. StateInv /\ HistInv => TypeOK
  <2> SUFFICES ASSUME StateInv, HistInv PROVE TypeOK
    BY Zenon
  <2>1. \A ct \in sealed : ct \in Ciphertexts
    BY AuthorShape, Zenon DEF StateInv, CtShape
  <2>2. net \subseteq Envelopes
    BY Zenon DEF StateInv, EnvOK
  <2>3. \A p \in Parties : disk[p] # None => Loads(disk[p])
    BY Zenon DEF StateInv, RowOK
  <2> QED BY <2>1, <2>2, <2>3, Zenon DEF StateInv, HistInv, TextsOK, TypeOK, Statuses
<1> QED BY <1>1, StateInvariant, HistInvariant, PTL

\* A text the user was shown is in the database, but for at most one per run
\* that has ended: the chat branch of handle_direct prints before it inserts
\* the row, for any number of runs, texts and kills.
THEOREM OneRowPerCrash == Spec => []CrashLosesOneRow
<1>1. HistInv => CrashLosesOneRow
  BY Zenon DEF HistInv
<1> QED BY <1>1, HistInvariant, PTL

=============================================================================
