------------------------ MODULE DemoHandshakeProofs ------------------------
(***************************************************************************)
(* Proofs about the handshake of the demo application, from what the       *)
(* handlers do (DemoAppProofs): secrets meet their keys, nobody gets a     *)
(* message it cannot accept, and a new message has a new key.              *)
(***************************************************************************)
EXTENDS DemoAppProofs

-----------------------------------------------------------------------------
(* The handshake: at most one of its messages is under way in a run of the *)
(* initiator, and it fits what the initiator waits for.                    *)

\* Every message has been taken for what it is.
Straight == ~Ever("misread", Parties) \/ setting.bytes = {OtherByte}

\* Mishaps stay noted.
LEMMA StaysNoted ==
    ASSUME StateInv, Step
    PROVE  /\ mishaps \subseteq mishaps'
           /\ \A kind, parties : Ever(kind, parties) => Ever(kind, parties)'
<1>1. mishaps \subseteq mishaps'
  BY OneActs, Zenon DEF Idle, Starts, Frame, Notes
<1> QED BY <1>1, Zenon DEF Ever

LEMMA StaysStraight ==
    ASSUME StateInv, Step, setting' = setting, Straight'
    PROVE  Straight
  BY StaysNoted, Zenon DEF Straight

\* No ciphertext is taken for a bundle request or a ratchet key.
LEMMA TakenStraight ==
    ASSUME StateInv, setting' = setting, Straight', NEW p \in Parties, NEW e \in net,
           e.marker \in {BundleReq, RatchetPub},
           e.header # None => <<"misread", Me(p)>> \in mishaps'
    PROVE  e.header = None
<1> SUFFICES ASSUME e.header # None PROVE FALSE
  BY Zenon
<1>1. Ever("misread", Parties)'
  <2>1. <<"misread", Me(p)>>[1] = "misread" /\ <<"misread", Me(p)>>[2][1] = p
    BY DEF Me
  <2> QED BY <2>1, Zenon DEF Ever
<1>2. setting.bytes = {OtherByte}
  BY <1>1, Zenon DEF Straight
<1>3. e.marker \in setting.bytes \/ KeyLike \in setting.bytes
  BY Zenon DEF StateInv, Live, Begins
<1> QED BY <1>2, <1>3 DEF BundleReq, RatchetPub, OtherByte, KeyLike

Handshake(e) ==
    \E m \in {BundleReq, Bundle, Prekey, RatchetPub} : Sync(e, m)
Token(e) == status["I"] = "up" /\ (e.from = Me("I") \/ e.to = Me("I")) /\ Handshake(e)
Fits(e) ==
    /\ app["I"].started
    /\ e.marker \in {BundleReq, Bundle} => app["I"].pending = None
    /\ e.marker = Prekey => app["I"].pending = e.body
    /\ e.marker = RatchetPub => app["I"].pending # None /\ e.body = Rk(app["I"].pending)
TokenInv ==
    /\ \A e \in net : Token(e) => Fits(e)
    /\ \A e, f \in net : Token(e) /\ Token(f) => e = f
    /\ ~app["I"].started => app["I"].pending = None

\* Nothing of the handshake is new.
LEMMA TokenKept ==
    ASSUME StateInv, TokenInv, run'["I"] = run["I"],
           \A g \in net' : g \in net \/ ~Token(g)',
           \/ Gone("I")
           \/ /\ status'["I"] = "up" => status["I"] = "up"
              /\ app'["I"].pending = app["I"].pending /\ app'["I"].started = app["I"].started
    PROVE  TokenInv'
<1>1. CASE Gone("I")
  <2>1. app'["I"].started = FALSE /\ app'["I"].pending = None /\ status'["I"] # "up"
    BY <1>1, PartyFacts, NewAppFacts, Zenon DEF Gone
  <2> QED BY <2>1, Zenon DEF TokenInv, Token
<1>2. CASE ~Gone("I")
  <2>1. \A g \in net' : Token(g)' => g \in net /\ Token(g)
    BY <1>2, Zenon DEF Token, Me
  <2>2. \A g : Fits(g)' <=> Fits(g)
    BY <1>2, Zenon DEF Fits
  <2> QED BY <1>2, <2>1, <2>2, Zenon DEF TokenInv
<1> QED BY <1>1, <1>2, Zenon

\* The message of the handshake is answered by another one, or by none.
LEMMA TokenPassed ==
    ASSUME StateInv, TokenInv, run'["I"] = run["I"], NEW e \in net, Token(e),
           app'["I"].started, NEW f,
           \A g \in net' : g \in net \ {e} \/ ~Token(g)' \/ (g = f /\ Fits(g)')
    PROVE  TokenInv'
<1>1. \A g \in net' : Token(g)' => g = f /\ Fits(g)'
  <2> SUFFICES ASSUME NEW g \in net', Token(g)', g \in net \ {e} PROVE FALSE
    BY Zenon
  <2>1. Token(g)
    BY Zenon DEF Token, Me
  <2> QED BY <2>1, Zenon DEF TokenInv
<1> QED BY <1>1, Zenon DEF TokenInv

\* A new run has a new identity, and nothing of the handshake is under way.
LEMMA TokenStarts ==
    ASSUME StateInv, Starts("I")
    PROVE  TokenInv'
<1>1. /\ net' = net /\ run'["I"] = run["I"] + 1 /\ run["I"] \in Nat /\ status["I"] # "up"
      /\ app'["I"].pending = None
  BY PartyFacts, Zenon DEF Starts, StateInv, Now
<1>2. ASSUME NEW g \in net PROVE ~Token(g)'
  <2>1. Alive(g.to) /\ g.from[2] <= run[g.from[1]]
    BY Zenon DEF StateInv, Live
  <2>2. Me("I")' = <<"I", run["I"] + 1>>
    BY <1>1, Zenon DEF Me
  <2>3. g.from # Me("I")'
    BY <1>1, <2>1, <2>2
  <2>4. g.to # Me("I")'
    BY <1>1, <2>1, <2>2 DEF Alive
  <2> QED BY <2>3, <2>4, Zenon DEF Token
<1> QED BY <1>1, <1>2, Zenon DEF TokenInv

\* What kind of message a request is.
LEMMA Markers ==
    ASSUME NEW e
    PROVE  /\ Sync(e, BundleReq) \/ Sync(e, Bundle) \/ Sync(e, Prekey) \/ Sync(e, RatchetPub)
                => Handshake(e) /\ e.header = None
           /\ Sync(e, GroupKey) \/ e.header # None => ~Handshake(e)
           /\ Sync(e, BundleReq) \/ Sync(e, Bundle) => e.marker \in {BundleReq, Bundle} /\ e.marker # Prekey
                                                         /\ e.marker # RatchetPub
           /\ Sync(e, Prekey) => e.marker = Prekey /\ e.marker \notin {BundleReq, Bundle, RatchetPub}
           /\ Sync(e, RatchetPub) => e.marker = RatchetPub /\ e.marker \notin {BundleReq, Bundle, Prekey}
  BY DEF Handshake, Sync, BundleReq, Bundle, Prekey, RatchetPub, GroupKey

\* The initiator's steps.
LEMMA InitiatorTokens ==
    ASSUME StateInv, TokenInv, Frame("I"), Acts("I"), setting' = setting, Straight'
    PROVE  TokenInv'
<1>0. run'["I"] = run["I"] /\ status["I"] = "up" /\ "I" \in Parties /\ "I" # "R"
  BY PartyFacts, Zenon DEF Frame
<1>1. CASE Stopped("I") \/ Passes("I") \/ Says("I")
  <2>1. \A g \in net' : g \in net \/ ~Token(g)'
    <3>1. \A g \in net' : g \in net \/ g.header # None
      BY <1>1, Zenon DEF Stopped, Passes, Says
    <3> QED BY <3>1, Markers, Zenon DEF Token, Handshake
  <2>2. \/ Gone("I")
        \/ app'["I"].pending = app["I"].pending /\ app'["I"].started = app["I"].started
    BY <1>1, Zenon DEF Stopped, Passes, Says, Same, Now
  <2> QED BY <1>0, <2>1, <2>2, TokenKept, Zenon
<1>2. CASE AsksBundle
  <2>1. PICK f : f.from = Me("I") /\ Sync(f, BundleReq) /\ net' \subseteq net \union {f}
    BY <1>2, Zenon DEF AsksBundle
  <2>2. ~app["I"].started /\ app'["I"].pending = app["I"].pending /\ app'["I"].started
    BY <1>2, Zenon DEF AsksBundle, Now
  <2>3. app["I"].pending = None /\ \A g \in net : ~Token(g)
    BY <2>2, Zenon DEF TokenInv, Fits
  <2>4. \A g \in net' : Token(g)' => g = f
    BY <1>0, <2>1, <2>3, Zenon DEF Token, Me
  <2>5. Fits(f)'
    BY <2>1, <2>2, <2>3, Markers, Zenon DEF Fits
  <2> QED BY <2>2, <2>4, <2>5, Zenon DEF TokenInv
<1>3. ASSUME NEW e \in net, SendsPrekey(e) PROVE TokenInv'
  <2>1. /\ Sync(e, Bundle) /\ e.to = Me("I") /\ app'["I"].pending = Secret(secrets + 1)
        /\ app'["I"].started = app["I"].started
    BY <1>3, Zenon DEF SendsPrekey, Now
  <2>2. PICK f : Sync(f, Prekey) /\ f.body = Secret(secrets + 1) /\ net' \subseteq (net \ {e}) \union {f}
    BY <1>3, Zenon DEF SendsPrekey
  <2>3. Token(e) /\ app["I"].started
    BY <1>0, <2>1, Markers, Zenon DEF Token, TokenInv, Fits
  <2>4. Fits(f)'
    BY <2>1, <2>2, <2>3, Markers, Zenon DEF Fits
  <2> QED BY <1>0, <2>1, <2>2, <2>3, <2>4, TokenPassed
<1>4. ASSUME NEW e \in net, Greets(e) PROVE TokenInv'
  <2>0. e.header = None
    BY <1>0, <1>4, TakenStraight, Zenon DEF Greets, Sync
  <2>1. Sync(e, RatchetPub) /\ e.to = Me("I")
    BY <1>4, <2>0, Zenon DEF Greets
  <2>2. Token(e) /\ app["I"].started
    BY <1>0, <2>1, Markers, Zenon DEF Token, TokenInv, Fits
  <2>3. /\ \A g \in net' : g \in net \ {e} \/ Sync(g, GroupKey) \/ g.header # None
        /\ Gone("I") \/ app'["I"].started = app["I"].started
    BY <1>4, Zenon DEF Greets, GreetsWith, Now
  <2>4. \A g \in net' : g \in net \ {e} \/ ~Token(g)'
    BY <2>3, Markers, Zenon DEF Token, Handshake
  <2> QED BY <1>0, <2>2, <2>3, <2>4, TokenKept, TokenPassed, Zenon
<1> QED BY <1>0, <1>1, <1>2, <1>3, <1>4, Zenon DEF Acts

\* The responder's steps; no chat message is taken for a bundle request.
LEMMA ResponderTokens ==
    ASSUME StateInv, TokenInv, Frame("R"), Acts("R"), setting' = setting, Straight'
    PROVE  TokenInv'
<1>0. /\ run'["I"] = run["I"] /\ "I" \in Parties /\ "R" \in Parties /\ "I" # "R"
      /\ app'["I"] = app["I"] /\ status'["I"] = status["I"]
  BY PartyFacts, OtherKept DEF Frame
<1>1. CASE Stopped("R") \/ Passes("R") \/ Says("R") \/ \E e \in net : Reads(e)
  <2>1. \A g \in net' : g \in net \/ g.header # None
    BY <1>1, Zenon DEF Stopped, Passes, Says, Reads
  <2>2. \A g \in net' : g \in net \/ ~Token(g)'
    BY <2>1, Markers, Zenon DEF Token, Handshake
  <2> QED BY <1>0, <2>2, TokenKept, Zenon
<1>2. ASSUME NEW e \in net, NEW f, Handshake(e), e.from # Me("R"), e.to = Me("R"),
             f.from = Me("R"), f.to = e.from, net' \subseteq (net \ {e}) \union {f},
             Fits(e) => Fits(f)'
      PROVE  TokenInv'
  <2>1. Me("R") # Me("I") /\ Me("I")' = Me("I")
    BY <1>0, Zenon DEF Me
  <2>2. CASE Token(e)
    <3>1. Fits(e) /\ app'["I"].started
      BY <1>0, <2>2, Zenon DEF TokenInv, Fits
    <3> QED BY <1>0, <1>2, <2>2, <3>1, TokenPassed
  <2>3. CASE ~Token(e)
    <3>1. \A g \in net' : g \in net \/ ~Token(g)'
      BY <1>0, <1>2, <2>1, <2>3, Zenon DEF Token
    <3> QED BY <1>0, <3>1, TokenKept, Zenon
  <2> QED BY <2>2, <2>3, Zenon
<1>3. ASSUME NEW e \in net, AnswersBundle(e) PROVE TokenInv'
  <2>1. e.marker = BundleReq /\ e.to = Me("R") /\ e.header = None
    BY <1>0, <1>3, TakenStraight, Zenon DEF AnswersBundle
  <2>2. PICK f : /\ f.from = Me("R") /\ f.to = e.from /\ Sync(f, Bundle)
                 /\ net' \subseteq (net \ {e}) \union {f}
    BY <1>3, Zenon DEF AnswersBundle
  <2>3. EnvOK(e) /\ Live(e)
    BY Zenon DEF StateInv
  <2>4. Sync(e, BundleReq) /\ e.from[1] = "I"
    BY <2>1, <2>3 DEF EnvOK, ChatOK, SyncOK, Sync, BundleReq, Bundle, Prekey, RatchetPub, GroupKey
  <2>5. e.from # Me("R")
    BY <1>0, <2>4, Names, Zenon
  <2>6. Fits(e) => Fits(f)'
    BY <1>0, <2>2, <2>4, Markers, Zenon DEF Fits
  <2> QED BY <1>2, <2>1, <2>2, <2>4, <2>5, <2>6, Markers, Zenon
<1>4. ASSUME NEW e \in net, TakesPrekey(e) PROVE TokenInv'
  <2>1. Sync(e, Prekey) /\ e.to = Me("R") /\ e.body \in Secrets
    BY <1>4, Zenon DEF TakesPrekey
  <2>2. PICK f : /\ f.from = Me("R") /\ f.to = e.from /\ Sync(f, RatchetPub) /\ f.body = Rk(e.body)
                 /\ net' \subseteq (net \ {e}) \union {f}
    BY <1>4, Zenon DEF TakesPrekey
  <2>3. e.from[1] # e.to[1]
    BY Zenon DEF StateInv, EnvOK
  <2>4. e.from # Me("R")
    BY <2>1, <2>3, Zenon
  <2>5. Fits(e) => Fits(f)'
    BY <1>0, <2>1, <2>2, Markers, NoneAssumption, Zenon DEF Fits
  <2> QED BY <1>2, <2>1, <2>2, <2>4, <2>5, Markers, Zenon
<1> QED BY <1>0, <1>1, <1>3, <1>4, Zenon DEF Acts

LEMMA TokenSteps ==
    ASSUME StateInv, TokenInv, Step, setting' = setting, Straight'
    PROVE  TokenInv'
<1>1. CASE Idle
  BY <1>1, TokenKept, Zenon DEF Idle
<1>2. ASSUME NEW p \in Parties, Starts(p) PROVE TokenInv'
  <2>1. CASE p = "I"
    BY <1>2, <2>1, TokenStarts, Zenon
  <2>2. CASE p # "I"
    <3>1. /\ run'["I"] = run["I"] /\ status'["I"] = status["I"] /\ app'["I"] = app["I"] /\ net' = net
      BY <1>2, <2>2, PartyFacts, Zenon DEF Starts, StateInv
    <3> QED BY <3>1, TokenKept, Zenon
  <2> QED BY <2>1, <2>2, Zenon
<1>3. ASSUME NEW p \in Parties, Frame(p), Acts(p) PROVE TokenInv'
  BY <1>3, PartyFacts, InitiatorTokens, ResponderTokens, Zenon
<1> QED BY <1>1, <1>2, <1>3, OneActs, Zenon

\* A message that is sent in this step, and by which session.
NewMessage(ct) ==
    \/ ByResponder(ct)
    \/ /\ \E e \in net : Answer(e) /\ ct.key.chain = Root1(app["I"].pending, e.body)
       /\ CtSecret(ct) = app["I"].pending
    \/ LET r == app["I"].session
       IN  r # None /\ CtSecret(ct) = SecretOf(r) /\ ct.key.chain = Root1(SecretOf(r), Public(r))

LEMMA MessageSteps ==
    ASSUME StateInv, Step, NEW ct \in sealed'
    PROVE  ct \in sealed \/ NewMessage(ct)
<1>1. CASE Idle
  BY <1>1, Zenon DEF Idle
<1>2. ASSUME NEW p \in Parties, Starts(p) PROVE ct \in sealed
  BY <1>2, Zenon DEF Starts
<1>3. ASSUME NEW p \in Parties, Stopped(p) \/ Passes(p) PROVE ct \in sealed
  BY <1>3, Zenon DEF Stopped, Passes, Quiet
<1>4. ASSUME NEW p \in Parties, Says(p), ct \notin sealed PROVE NewMessage(ct)
  <2>1. PICK next : Seals(p, app[p].session, next, ct) /\ app[p].session # None
    BY <1>4, Zenon DEF Says
  <2>2. CASE p = "I"
    <3>1. PICK text \in Ids : ct = ISealed(SecretOf(app["I"].session), Public(app["I"].session),
                                           Sent(app["I"].session), text)
      BY <2>1, <2>2, PartyFacts, Zenon DEF Seals
    <3>2. IsInitiator(app["I"].session)
      BY <2>1, <2>2, PartyFacts, Zenon DEF Seals
    <3>3. CtShape(ct, SecretOf(app["I"].session),
                  Root1(SecretOf(app["I"].session), Public(app["I"].session)),
                  Ik(SecretOf(app["I"].session)), Sent(app["I"].session), text)
      BY <3>1, <3>2, InitiatorMessage, Zenon DEF IsInitiator
    <3> QED BY <2>1, <2>2, <3>3, Zenon DEF NewMessage, CtShape
  <2>3. CASE p # "I"
    <3>1. AuthorOK(p, ct)
      BY <1>4, Zenon DEF Says, Frame
    <3> QED BY <2>3, <3>1, Zenon DEF AuthorOK, NewMessage
  <2> QED BY <2>2, <2>3, Zenon
<1>5. ASSUME NEW e \in net, Greets(e), ct \notin sealed PROVE NewMessage(ct)
  <2>1. Answer(e)
    BY <1>5, Zenon DEF Greets, Answer, Frame
  <2>2. PICK text \in Ids : ct = ISealed(app["I"].pending, e.body, 0, text)
    <3>1. PICK saved \in BOOLEAN, sent \in BOOLEAN : \E new, r : GreetsWith(e, new, r, saved, sent)
      BY <1>5, Zenon DEF Greets
    <3>2. PICK new, r : GreetsWith(e, new, r, saved, sent)
      BY <3>1, Zenon
    <3>3. ct = new
      BY <1>5, <3>2, Zenon DEF GreetsWith
    <3> QED BY <3>2, <3>3, Zenon DEF GreetsWith
  <2>3. CtShape(ct, app["I"].pending, Root1(app["I"].pending, e.body), Ik(app["I"].pending), 0, text)
    BY <2>1, <2>2, InitiatorMessage, Zenon DEF Answer
  <2> QED BY <2>1, <2>3, Zenon DEF NewMessage, CtShape
<1>6. CASE AsksBundle \/ \E e \in net : AnswersBundle(e) \/ SendsPrekey(e) \/ TakesPrekey(e) \/ Reads(e)
  BY <1>6, Zenon DEF AsksBundle, AnswersBundle, SendsPrekey, TakesPrekey, Reads, Quiet
<1> QED BY <1>1, <1>2, <1>3, <1>4, <1>5, <1>6, Zenon DEF Step, HandlesRequest

\* The initiator's sessions and messages use the responder's key for their secret.
PairedInv ==
    /\ \A r \in {app["I"].session, Resume("I")} : r # None => Public(r) = Rk(SecretOf(r))
    /\ \A ct \in sealed : ByInitiator(ct) => ct.key.chain = Root1(CtSecret(ct), Rk(CtSecret(ct)))

\* The answer the initiator accepts is for the secret it waits with.
LEMMA AnswerFits ==
    ASSUME StateInv, TokenInv, setting' = setting, Straight', NEW e \in net, Answer(e)
    PROVE  /\ Sync(e, RatchetPub) /\ e.body = Rk(app["I"].pending) /\ app["I"].pending \in Secrets
<1>0. Sync(e, RatchetPub)
  BY PartyFacts, TakenStraight, Zenon DEF Answer
<1>1. Token(e)
  BY <1>0, Markers, Zenon DEF Answer, Token
<1> QED BY <1>0, <1>1, Zenon DEF TokenInv, Fits, Answer, Sync

LEMMA PairedSteps ==
    ASSUME StateInv, TokenInv, PairedInv, Step, setting' = setting, Straight'
    PROVE  PairedInv'
<1>1. ASSUME NEW r, r # None, NextSession("I", r) PROVE Public(r) = Rk(SecretOf(r))
  <2>1. CASE Establishes(r)
    <3>1. PICK e \in net, n \in {0, 1} : Answer(e) /\ r = InitiatorAt(app["I"].pending, e.body, n)
      BY <2>1, Zenon DEF Establishes
    <3>2. e.body = Rk(app["I"].pending) /\ app["I"].pending \in Secrets
      BY <3>1, AnswerFits, Zenon
    <3>3. n \in Nat /\ e.body \in ResponderKeys
      BY <3>1 DEF Answer
    <3> QED BY <3>1, <3>2, <3>3, InitiatorParts
  <2>2. CASE Continues(app["I"].session, r)
    BY <2>2, Zenon DEF Continues, PairedInv
  <2> QED BY <1>1, <2>1, <2>2, PartyFacts, Zenon DEF NextSession
<1>2. Holds("I")
  BY SessionSteps, PartyFacts, Zenon
<1>3. \A r \in {app'["I"].session, Resume("I")'} : r # None => Public(r) = Rk(SecretOf(r))
  BY <1>1, <1>2, Zenon DEF Holds, PairedInv
<1>4. ASSUME NEW ct \in sealed', ByInitiator(ct)
      PROVE  ct.key.chain = Root1(CtSecret(ct), Rk(CtSecret(ct)))
  <2>1. CASE ct \in sealed
    BY <1>4, <2>1, Zenon DEF PairedInv
  <2>2. CASE NewMessage(ct)
    <3>1. CASE \E e \in net : Answer(e) /\ ct.key.chain = Root1(app["I"].pending, e.body)
               /\ CtSecret(ct) = app["I"].pending
      BY <3>1, AnswerFits, Zenon
    <3>2. CASE app["I"].session # None /\ CtSecret(ct) = SecretOf(app["I"].session)
               /\ ct.key.chain = Root1(SecretOf(app["I"].session), Public(app["I"].session))
      BY <3>2, Zenon DEF PairedInv
    <3> QED BY <1>4, <2>2, <3>1, <3>2, OneAuthor, Zenon DEF NewMessage
  <2> QED BY <2>1, <2>2, MessageSteps, Zenon
<1> QED BY <1>3, <1>4, Zenon DEF PairedInv

HandshakeInv == Straight => TokenInv /\ PairedInv

LEMMA HandshakeInvariant == Spec => []HandshakeInv
<1>1. Init => HandshakeInv
  <2> SUFFICES ASSUME Init PROVE TokenInv /\ PairedInv
    BY Zenon DEF HandshakeInv
  <2>1. app["I"].pending = None /\ app["I"].session = None /\ Resume("I") = None
    BY PartyFacts, NewAppFacts, Zenon DEF Init, Resume, LoadSession
  <2> QED BY <2>1, Zenon DEF Init, TokenInv, PairedInv
<1>2. ASSUME StateInv, HandshakeInv, [Next]_vars PROVE HandshakeInv'
  <2>1. Step /\ setting' = setting
    BY <1>2, Steps, Zenon DEF Next, vars
  <2> QED BY <1>2, <2>1, StaysStraight, TokenSteps, PairedSteps, Zenon DEF HandshakeInv
<1> QED BY <1>1, <1>2, StateInvariant, PTL DEF Spec

\* The initiator combines its PQXDH secret only with the ratchet key that the
\* responder made for that secret, in memory and saved, over any number of runs
\* (InitiatorHandshake, handshake_started), until a ciphertext is taken for a
\* message of the handshake (handle_direct).
THEOREM SecretsMeetTheirKeys == Spec => []KeysPaired
<1>1. HandshakeInv => KeysPaired
  BY Zenon DEF HandshakeInv, Straight, PairedInv, KeysPaired, Public, Rk
<1> QED BY <1>1, HandshakeInvariant, PTL

-----------------------------------------------------------------------------
(* Whoever is sent something has what it takes to accept it *)

Ready(e) ==
    /\ Sync(e, GroupKey) => app["R"].session # None
    /\ Sync(e, RatchetPub) => disk["R"] # None /\ (Alive(e.from) => app["R"].session # None)
    /\ e.header # None => disk["I"] # None /\ disk["R"] # None
ReadyInv ==
    /\ \A e \in net : Ready(e)
    /\ app["I"].session # None => disk["I"] # None
    /\ disk["I"] # None => disk["R"] # None
    /\ \A r \in {app["R"].session, Resume("R")} : r # None /\ ~IsFresh(r) => disk["I"] # None

\* A row loads to a session (load_session, rebuild_ratchet), before a step and after it.
LEMMA RowsLoad ==
    ASSUME StateInv, Step, NEW p \in Parties
    PROVE  /\ Resume(p) # None <=> disk[p] # None
           /\ Resume(p)' # None <=> disk'[p] # None
<1>1. \A d \in Snapshots : ToRatchet(d) # None
  <2> SUFFICES ASSUME NEW d \in Snapshots PROVE ToRatchet(d) # None
    BY Zenon
  <2>1. ToRatchet(d) \in Ratchets
    BY Zenon DEF Snapshots, ChainSnapshots, Ratchets, Chains, ToRatchet, ToChain, Opt
  <2> QED BY <2>1, NoneAssumption, Zenon
<1>2. disk'[p] # None => disk'[p] \in Snapshots
  BY StepKeeps, Zenon DEF StateInv, RowOK
<1> QED BY <1>1, <1>2, Resumes, Zenon DEF Resume, LoadSession

\* A process that is up after a step was up before, in the same run, or starts.
LEMMA Runs ==
    ASSUME StateInv, Step, NEW p \in Parties
    PROVE  /\ Starts(p) \/ (run'[p] = run[p] /\ (status'[p] = "up" => status[p] = "up"))
           /\ Starts(p) => run'[p] = run[p] + 1 /\ net' = net
<1>1. Idle => run'[p] = run[p] /\ status'[p] = status[p]
  BY Zenon DEF Idle
<1>2. ASSUME NEW q \in Parties, Starts(q)
      PROVE  \/ Starts(p)
             \/ run'[p] = run[p] /\ (status'[p] = "up" => status[p] = "up")
  BY <1>2, Zenon DEF Starts, StateInv
<1>3. ASSUME NEW q \in Parties, Frame(q)
      PROVE  run'[p] = run[p] /\ (status'[p] = "up" => status[p] = "up")
  <2>1. status'[p] = status[p] \/ p = q
    BY <1>3, OtherKept, Zenon
  <2> QED BY <1>3, <2>1, Zenon DEF Frame
<1>4. Starts(p) => run'[p] = run[p] + 1 /\ net' = net
  BY Zenon DEF Starts, StateInv
<1> QED BY <1>1, <1>2, <1>3, <1>4, OneActs, Zenon

\* Rows are there before the sessions that need them.
LEMMA ReadyRows ==
    ASSUME StateInv, ReadyInv, Step, setting' = setting, Straight'
    PROVE  /\ disk["I"] # None => disk'["I"] # None
           /\ disk["R"] # None => disk'["R"] # None
           /\ app'["I"].session # None => disk'["I"] # None
           /\ disk'["I"] # None => disk'["R"] # None
           /\ \A r \in {app'["R"].session, Resume("R")'} : r # None /\ ~IsFresh(r) => disk'["I"] # None
<1>1. Holds("I") /\ Holds("R") /\ "I" \in Parties /\ "R" \in Parties /\ "I" # "R"
  BY SessionSteps, PartyFacts, Zenon
<1>2. /\ Resume("I") # None <=> disk["I"] # None
      /\ Resume("I")' # None <=> disk'["I"] # None
  BY <1>1, RowsLoad, Zenon
<1>3. /\ disk["I"] # None => disk'["I"] # None
      /\ disk["R"] # None => disk'["R"] # None
      /\ app'["I"].session # None => disk'["I"] # None
  BY <1>1, Zenon DEF Holds, ReadyInv
<1>4. ASSUME NextSession("I", Resume("I")') PROVE disk["R"] # None
  <2>1. CASE Establishes(Resume("I")')
    <3>1. PICK e \in net : Answer(e)
      BY <2>1, Zenon DEF Establishes
    <3>2. Sync(e, RatchetPub)
      BY <1>1, <3>1, TakenStraight, Zenon DEF Answer
    <3> QED BY <3>2, Zenon DEF ReadyInv, Ready
  <2>2. CASE Continues(app["I"].session, Resume("I")')
    BY <2>2, Zenon DEF Continues, ReadyInv
  <2> QED BY <1>1, <1>4, <2>1, <2>2, Zenon DEF NextSession
<1>5. disk'["I"] # None => disk'["R"] # None
  BY <1>1, <1>2, <1>3, <1>4, Zenon DEF Holds, ReadyInv
<1>6. ASSUME NEW r, NextSession("R", r), ~IsFresh(r) PROVE disk["I"] # None
  <2>1. \A e \in net : e.body \in Secrets => r # Fresh(e.body)
    BY <1>6, FreshParts, Zenon
  <2>2. app["R"].session # None /\ IsJoined(app["R"].session) => disk["I"] # None
    BY FreshParts, Zenon DEF ReadyInv, IsFresh
  <2> QED BY <1>1, <1>6, <2>1, <2>2, Zenon DEF NextSession, ReadyInv, Ready
<1>7. \A r \in {app'["R"].session, Resume("R")'} : r # None /\ ~IsFresh(r) => disk'["I"] # None
  BY <1>1, <1>3, <1>6, Zenon DEF Holds, ReadyInv
<1> QED BY <1>3, <1>5, <1>7, Zenon

\* Every new request finds its addressee ready.
LEMMA ReadyNew ==
    ASSUME StateInv, ReadyInv, Step, setting' = setting, Straight', NEW f \in net', f \notin net
    PROVE  Ready(f)'
<1>0. /\ "I" \in Parties /\ "R" \in Parties /\ "I" # "R"
      /\ disk["I"] # None => disk'["I"] # None
      /\ disk["R"] # None => disk'["R"] # None
      /\ app'["I"].session # None => disk'["I"] # None
      /\ disk'["I"] # None => disk'["R"] # None
      /\ \A r \in {app'["R"].session, Resume("R")'} : r # None /\ ~IsFresh(r) => disk'["I"] # None
  BY PartyFacts, ReadyRows, Zenon
<1>1. ASSUME f.header # None, disk'["I"] # None PROVE Ready(f)'
  BY <1>0, <1>1, Zenon DEF Ready, Sync
<1>2. ASSUME Sync(f, BundleReq) \/ Sync(f, Bundle) \/ Sync(f, Prekey) PROVE Ready(f)'
  BY <1>2 DEF Ready, Sync, BundleReq, Bundle, Prekey, RatchetPub, GroupKey
<1>3. CASE Idle \/ \E p \in Parties : Starts(p) \/ Stopped(p) \/ Passes(p)
  BY <1>3, Zenon DEF Idle, Starts, Stopped, Passes
<1>4. ASSUME NEW p \in Parties, Says(p) PROVE Ready(f)'
  <2>1. f.header # None /\ app[p].session # None
    BY <1>4, Zenon DEF Says
  <2>2. PICK next, ct : Seals(p, app[p].session, next, ct)
    BY <1>4, Zenon DEF Says
  <2>3. CASE p = "I"
    BY <1>0, <1>1, <2>1, <2>3, Zenon DEF ReadyInv
  <2>4. CASE p # "I"
    <3>1. IsJoined(app["R"].session)
      BY <1>0, <2>2, <2>4, PartyFacts, Zenon DEF Seals
    <3>2. disk["I"] # None
      BY <2>1, <2>4, <3>1, PartyFacts, FreshParts, Zenon DEF ReadyInv, IsFresh
    <3> QED BY <1>0, <1>1, <2>1, <3>2, Zenon
  <2> QED BY <2>3, <2>4, Zenon
<1>5. CASE AsksBundle \/ \E e \in net : AnswersBundle(e) \/ SendsPrekey(e) \/ Reads(e)
  BY <1>2, <1>5, Zenon DEF AsksBundle, AnswersBundle, SendsPrekey, Reads
<1>6. ASSUME NEW e \in net, TakesPrekey(e) PROVE Ready(f)'
  <2>1. PICK saved \in BOOLEAN :
            /\ Saves("R", saved, Fresh(e.body)) /\ Sync(f, RatchetPub)
            /\ saved /\ Now("R", Fresh(e.body), app["R"].pending, app["R"].started)
    BY <1>6, Zenon DEF TakesPrekey, Sync
  <2>2. disk'["R"] # None
    BY <2>1, Zenon DEF Saves
  <2>3. app'["R"].session = Fresh(e.body) /\ Fresh(e.body) # None
    BY <1>6, <2>1, FreshParts, Zenon DEF Now, TakesPrekey
  <2> QED BY <2>1, <2>2, <2>3, Zenon DEF Ready, Sync, RatchetPub, GroupKey
<1>7. ASSUME NEW e \in net, Greets(e) PROVE Ready(f)'
  <2>1. Sync(e, RatchetPub) /\ Frame("I")
    BY <1>0, <1>7, TakenStraight, Zenon DEF Greets
  <2>2. PICK saved \in BOOLEAN, sent \in BOOLEAN : \E ct, r : GreetsWith(e, ct, r, saved, sent)
    BY <1>7, Zenon DEF Greets
  <2>3. PICK ct, r : GreetsWith(e, ct, r, saved, sent)
    BY <2>2, Zenon
  <2>4. /\ Saves("I", saved, r) /\ (sent => saved)
        /\ (saved /\ f.to = e.from /\ Sync(f, GroupKey)) \/ (sent /\ f.header # None)
    BY <2>3, Zenon DEF GreetsWith
  <2>5. disk'["I"] # None
    BY <2>4, Zenon DEF Saves
  <2>6. CASE f.to = e.from /\ Sync(f, GroupKey)
    <3>1. Alive(e.from)
      BY <2>1, <2>6, Zenon DEF Frame, New
    <3>2. app["R"].session # None /\ app'["R"] = app["R"]
      BY <1>0, <2>1, <3>1, OtherKept, Zenon DEF ReadyInv, Ready
    <3> QED BY <2>6, <3>2 DEF Ready, Sync, RatchetPub, GroupKey
  <2> QED BY <1>1, <2>4, <2>5, <2>6, Zenon
<1> QED BY <1>3, <1>4, <1>5, <1>6, <1>7, Zenon DEF Step, HandlesRequest

LEMMA ReadySteps ==
    ASSUME StateInv, ReadyInv, Step, setting' = setting, Straight'
    PROVE  ReadyInv'
<1>1. ASSUME NEW f \in net', f \in net PROVE Ready(f)'
  <2>0. "I" \in Parties /\ "R" \in Parties /\ "I" # "R" /\ Ready(f)
    BY PartyFacts, <1>1, Zenon DEF ReadyInv
  <2>1. EnvOK(f) /\ Live(f)
    BY <1>1, Zenon DEF StateInv
  <2>2. /\ disk["I"] # None => disk'["I"] # None
        /\ disk["R"] # None => disk'["R"] # None
    BY ReadyRows, Zenon
  <2>3. status["R"] = "up" /\ status'["R"] = "up" /\ app["R"].session # None => app'["R"].session # None
    BY <2>0, SessionSteps, Zenon DEF Holds
  <2>4. ASSUME Sync(f, GroupKey) PROVE app'["R"].session # None
    <3>1. f.to[1] = "R"
      BY <2>1, <2>4, PartyFacts DEF EnvOK, ChatOK, SyncOK, Sync, Envelopes, BundleReq, Bundle, Prekey,
                                    RatchetPub, GroupKey
    <3>2. status["R"] = "up"
      BY <2>1, <3>1, Zenon DEF Live, Alive
    <3>3. status'["R"] = "up"
      <4>1. Live(f)'
        BY <1>1, StepKeeps, Zenon DEF StateInv
      <4> QED BY <3>1, <4>1, Zenon DEF Live, Alive
    <3> QED BY <2>0, <2>3, <2>4, <3>2, <3>3, Zenon DEF Ready
  <2>5. ASSUME Sync(f, RatchetPub), Alive(f.from)' PROVE app'["R"].session # None
    <3>1. f.from[1] = "R"
      BY <2>1, <2>5 DEF EnvOK, ChatOK, SyncOK, Sync, BundleReq, Bundle, Prekey, RatchetPub, GroupKey
    <3>2. status'["R"] = "up" /\ run'["R"] = f.from[2] /\ f.from[2] <= run["R"]
      BY <2>1, <2>5, <3>1, Zenon DEF Alive, Live
    <3>3. run["R"] \in Nat /\ f.from[2] \in Nat
      BY <2>0, <2>1, PartyFacts, Zenon DEF StateInv, EnvOK, Envelopes
    <3>4. ~Starts("R")
      BY <2>0, <3>2, <3>3, Runs
    <3>5. Alive(f.from)
      BY <2>0, <3>1, <3>2, <3>4, Runs, Zenon DEF Alive
    <3> QED BY <2>0, <2>3, <2>5, <3>1, <3>2, <3>5, Zenon DEF Ready, Alive
  <2> QED BY <2>0, <2>2, <2>4, <2>5, Zenon DEF Ready
<1> QED BY <1>1, ReadyNew, ReadyRows, Zenon DEF ReadyInv

LEMMA ReadyInvariant == Spec => [](Straight => ReadyInv)
<1>1. Init => (Straight => ReadyInv)
  <2> SUFFICES ASSUME Init PROVE ReadyInv
    BY Zenon
  <2>1. /\ \A p \in Parties : app[p].session = None /\ disk[p] = None
        /\ Resume("R") = None
    BY PartyFacts, NewAppFacts, Zenon DEF Init, Resume, LoadSession
  <2> QED BY <2>1, PartyFacts, Zenon DEF Init, ReadyInv
<1>2. ASSUME StateInv, Straight => ReadyInv, [Next]_vars PROVE (Straight => ReadyInv)'
  <2>1. Step /\ setting' = setting
    BY <1>2, Steps, Zenon DEF Next, vars
  <2> QED BY <1>2, <2>1, StaysStraight, ReadySteps, Zenon
<1> QED BY <1>1, <1>2, StateInvariant, PTL DEF Spec

\* Where no ciphertext begins with a marker byte, whatever arrives is accepted.
LEMMA AllAccepted ==
    ASSUME StateInv, TokenInv, ReadyInv, setting.bytes = {OtherByte},
           NEW p \in Parties, NEW e \in net, Arrived(p, e)
    PROVE  Accepts(p, e)
<1>1. EnvOK(e) /\ Live(e) /\ e.to = Me(p) /\ e.to[1] = p /\ status[p] = "up" /\ Ready(e)
  BY ArrivedFacts, Zenon DEF ReadyInv
<1>2. e.from \in Ids /\ e.from[1] \in Parties /\ e.from[1] # p
  BY <1>1, PartyFacts, Zenon DEF EnvOK, Envelopes
<1>3. CASE ChatOK(e)
  <2>1. e.marker = OtherByte /\ e.header # None
    BY <1>1, <1>3 DEF ChatOK, Live, Begins, OtherByte, KeyLike
  <2>2. disk[p] # None
    BY <1>1, <2>1, PartyFacts, Zenon DEF Ready
  <2> QED BY <2>1, <2>2, Zenon DEF Accepts
<1>4. CASE Sync(e, RatchetPub) /\ e.from[1] = "R" /\ e.body \in ResponderKeys
  <2>1. p = "I"
    BY <1>2, <1>4, PartyFacts, Zenon
  <2>2. Token(e)
    BY <1>1, <1>4, <2>1, Markers, Zenon DEF Token
  <2>3. app["I"].pending # None
    BY <1>4, <2>2, Zenon DEF TokenInv, Fits, Sync
  <2>4. e.body # None
    BY <1>4, NoneAssumption DEF ResponderKeys, Ids, Parties
  <2> QED BY <1>4, <2>1, <2>3, <2>4, Zenon DEF Accepts, Sync
<1>5. CASE Sync(e, GroupKey) /\ e.from[1] = "I"
  <2>1. p = "R" /\ app["R"].session # None
    BY <1>1, <1>2, <1>5, PartyFacts, Zenon DEF Ready
  <2> QED BY <1>5, <2>1, Zenon DEF Accepts, Sync
<1>6. CASE \/ Sync(e, BundleReq) /\ e.from[1] = "I"
           \/ Sync(e, Bundle) /\ e.from[1] = "R"
           \/ Sync(e, Prekey) /\ e.from[1] = "I"
  BY <1>2, <1>6, PartyFacts, Zenon DEF Accepts, Sync
<1> QED BY <1>1, <1>3, <1>4, <1>5, <1>6, Zenon DEF EnvOK, SyncOK

\* No process is ever ended by the context() errors of handle_direct, where no
\* ciphertext begins with a marker byte: what one party sends, the run that it
\* is addressed to accepts, over any number of quits, kills and restarts.
THEOREM PlainHandshakeNeverFails == Spec => []PlainNeverFails
<1>1. Init => PlainNeverFails
  BY Zenon DEF Init, PlainNeverFails, HandshakeNeverFails
<1>2. ASSUME StateInv, HandshakeInv, Straight => ReadyInv, PlainNeverFails, [Next]_vars
      PROVE  PlainNeverFails'
  <2> SUFFICES ASSUME setting'.bytes = {OtherByte}, NEW p \in Parties, status'[p] = "protocol"
               PROVE  FALSE
    BY Zenon DEF PlainNeverFails, HandshakeNeverFails
  <2>1. Step /\ setting' = setting
    BY <1>2, Steps, Zenon DEF Next, vars
  <2>2. TokenInv /\ ReadyInv /\ status[p] # "protocol"
    BY <1>2, <2>1, Zenon DEF Straight, HandshakeInv, PlainNeverFails, HandshakeNeverFails
  <2>3. CASE Idle
    BY <2>2, <2>3, Zenon DEF Idle
  <2>4. ASSUME NEW q \in Parties, Starts(q) PROVE FALSE
    BY <1>2, <2>2, <2>4, Zenon DEF Starts, StateInv
  <2>5. ASSUME NEW q \in Parties, Frame(q) PROVE FALSE
    <3>1. p = q
      BY <1>2, <2>2, <2>5, OtherKept, Zenon
    <3>2. PICK e \in net : Arrived(p, e) /\ ~Accepts(p, e)
      BY <2>5, <3>1, Zenon DEF Frame
    <3> QED BY <1>2, <2>1, <2>2, <3>2, AllAccepted, Zenon
  <2> QED BY <1>2, <2>1, <2>3, <2>4, <2>5, OneActs, Zenon
<1> QED BY <1>1, <1>2, StateInvariant, HandshakeInvariant, ReadyInvariant, PTL DEF Spec

-----------------------------------------------------------------------------
(* Message keys, until a process fails to save after sending, killed or    *)
(* not: the sessions are then those of the rows.                           *)

Safe == ~Ever("unsaved", Parties)

\* A step that leaves it safe notes no failed save, and the rows are current.
LEMMA StaysSafe ==
    ASSUME StateInv, SavedIsCurrent, Step, Safe'
    PROVE  /\ Safe
           /\ \A p \in Parties : /\ <<"unsaved", Me(p)>> \notin mishaps'
                                 /\ app[p].session # None => Resume(p) = app[p].session
<1>1. ASSUME NEW p \in Parties PROVE <<"unsaved", Me(p)>> \notin mishaps'
  <2>1. <<"unsaved", Me(p)>>[1] = "unsaved" /\ <<"unsaved", Me(p)>>[2][1] = p
    BY DEF Me
  <2> QED BY <2>1, Zenon DEF Safe, Ever
<1>2. Safe /\ mishaps \subseteq mishaps'
  BY StaysNoted, Zenon DEF Safe
<1> QED BY <1>1, <1>2, Zenon DEF SavedIsCurrent

\* What StaysSafe says of a step.
Saved ==
    \A p \in Parties : /\ <<"unsaved", Me(p)>> \notin mishaps'
                       /\ app[p].session # None => Resume(p) = app[p].session

Pending == app["I"].pending

\* The requests that carry a secret or a message.
Carries(f) == Sync(f, Prekey) \/ f.header # None
Carried(S) == \A f \in net' : Carries(f) => f \in S
Sent1(ct) ==
    OneChat /\ \A f \in net' : Carries(f) => f \in net \/ (f.header # None /\ f.ciphertext = ct)

KeepsRow(p) == Resume(p)' = Resume(p)

\* What a step does to secrets, messages and rows.
Rests ==
    /\ KeepsRow("I") /\ KeepsRow("R") /\ UNCHANGED <<sealed, secrets>>
    /\ Pending' \in {Pending, None} /\ Carried(net)
Seals1(p, ct) ==
    /\ UNCHANGED secrets /\ Pending' = Pending /\ Resume(p) # None
    /\ Seals(p, Resume(p), Resume(p)', ct) /\ (\A q \in Parties \ {p} : KeepsRow(q))
    /\ sealed' = sealed \union {ct} /\ Sent1(ct)
Greets1(e, ct) ==
    /\ UNCHANGED secrets /\ Pending' = None /\ Answer(e) /\ KeepsRow("R")
    /\ Resume("I")' = InitiatorAt(Pending, e.body, 1)
    /\ \E text \in Ids : ct = ISealed(Pending, e.body, 0, text)
    /\ sealed' = sealed \union {ct} /\ Sent1(ct)
Establishes1(e) ==
    /\ KeepsRow("R") /\ UNCHANGED <<sealed, secrets>> /\ Pending' = None /\ Answer(e)
    /\ \/ KeepsRow("I")
       \/ \E n \in {0, 1} : Resume("I")' = InitiatorAt(Pending, e.body, n)
    /\ Carried(net)
Agrees1(f) ==
    /\ KeepsRow("I") /\ KeepsRow("R") /\ UNCHANGED sealed
    /\ secrets' = secrets + 1 /\ Pending' = Secret(secrets + 1)
    /\ Sync(f, Prekey) /\ f.body = Secret(secrets + 1) /\ Carried(net \union {f})
Takes1(e) ==
    /\ KeepsRow("I") /\ UNCHANGED <<sealed, secrets>> /\ Pending' = Pending
    /\ Sync(e, Prekey) /\ e.body \in Secrets
    /\ Resume("R")' \in {Resume("R"), Fresh(e.body)} /\ Carried(net \ {e})
Reads1(e, out) ==
    /\ KeepsRow("I") /\ UNCHANGED <<sealed, secrets>> /\ Pending' = Pending
    /\ ChatOK(e) /\ Resume("R") # None /\ Opened(Resume("R"), e.ciphertext, out)
    /\ Resume("R")' \in {Resume("R"), out.ratchet} /\ Carried(net \ {e})
KeyStep ==
    \/ Rests
    \/ \E p \in Parties, ct \in sealed' : Seals1(p, ct)
    \/ \E e \in net, ct \in sealed' : Greets1(e, ct)
    \/ \E e \in net : Establishes1(e)
    \/ \E f : Agrees1(f)
    \/ \E e \in net : Takes1(e)
    \/ \E e \in net : \E out : Reads1(e, out)

LEMMA SaysKeySteps ==
    ASSUME StateInv, Saved, NEW p \in Parties, Frame(p), Says(p)
    PROVE  KeyStep
<1>1. PICK next, ct : \E sent \in BOOLEAN, saved \in BOOLEAN :
          /\ Seals(p, app[p].session, next, ct) /\ Saves(p, saved, next)
          /\ (saved => sent) /\ (sent => saved)
          /\ sealed' = IF sent THEN sealed \union {ct} ELSE sealed
          /\ \A f \in net' : f \in net \/ (sent /\ f.header # None /\ f.ciphertext = ct)
          /\ (Gone(p) /\ ~saved) \/ (sent /\ Now(p, next, app[p].pending, app[p].started))
  BY Zenon DEF Says, Saved
<1>2. /\ app[p].session # None /\ Resume(p) = app[p].session /\ UNCHANGED secrets /\ OneChat
      /\ \A q \in Parties \ {p} : KeepsRow(q)
  BY OtherKept, Zenon DEF Says, Saved, KeepsRow
<1>3. "I" \in Parties /\ "R" \in Parties /\ NewApp.pending = None /\ (p # "I" => Pending' = Pending)
  BY PartyFacts, NewAppFacts, OtherKept, Zenon DEF Pending
<1>4. CASE /\ Seals(p, app[p].session, next, ct) /\ Resume(p)' = next
           /\ sealed' = sealed \union {ct} /\ Now(p, next, app[p].pending, app[p].started)
           /\ \A f \in net' : f \in net \/ (f.header # None /\ f.ciphertext = ct)
  <2>1. Pending' = Pending
    BY <1>3, <1>4, Zenon DEF Now, Pending
  <2>2. Sent1(ct)
    BY <1>2, <1>4, Zenon DEF Sent1
  <2>3. Seals1(p, ct) /\ ct \in sealed'
    BY <1>2, <1>4, <2>1, <2>2, Zenon DEF Seals1
  <2> QED BY <2>3, Zenon DEF KeyStep
<1>5. CASE Resume(p)' = Resume(p) /\ sealed' = sealed /\ net' \subseteq net /\ Gone(p)
  <2>1. Pending' \in {Pending, None}
    BY <1>3, <1>5, Zenon DEF Gone, Pending
  <2>2. KeepsRow("I") /\ KeepsRow("R") /\ Carried(net)
    BY <1>2, <1>3, <1>5, Zenon DEF KeepsRow, Carried
  <2> QED BY <1>2, <1>5, <2>1, <2>2, Zenon DEF KeyStep, Rests
<1>6. ASSUME NEW sent \in BOOLEAN, NEW saved \in BOOLEAN,
             /\ Seals(p, app[p].session, next, ct) /\ Saves(p, saved, next)
             /\ (saved => sent) /\ (sent => saved)
             /\ sealed' = IF sent THEN sealed \union {ct} ELSE sealed
             /\ \A f \in net' : f \in net \/ (sent /\ f.header # None /\ f.ciphertext = ct)
             /\ (Gone(p) /\ ~saved) \/ (sent /\ Now(p, next, app[p].pending, app[p].started))
      PROVE  KeyStep
  <2>1. CASE sent
    BY <1>4, <1>6, <2>1, Zenon DEF Saves
  <2>2. CASE ~sent
    BY <1>5, <1>6, <2>2, Zenon DEF Saves
  <2> QED BY <2>1, <2>2, Zenon
<1> QED BY <1>1, <1>6, Zenon

LEMMA InitiatorKeySteps ==
    ASSUME StateInv, Saved, Frame("I"), Acts("I")
    PROVE  KeyStep
<1>0. "I" \in Parties /\ "R" \in Parties /\ "I" # "R" /\ NewApp.pending = None
  BY PartyFacts, NewAppFacts, Zenon
<1>1. KeepsRow("R")
  BY <1>0, OtherKept, Zenon DEF KeepsRow
<1>2. CASE Stopped("I") \/ Passes("I") \/ AsksBundle
  <2>1. UNCHANGED <<sealed, secrets, disk>>
    BY <1>2, Zenon DEF Stopped, Passes, AsksBundle, Quiet
  <2>2. Pending' \in {Pending, None}
    BY <1>0, <1>2, Zenon DEF Stopped, Passes, AsksBundle, Same, Now, Gone, Pending
  <2>3. Carried(net)
    <3>1. \A f \in net' : f \in net \/ Sync(f, BundleReq)
      BY <1>2, Zenon DEF Stopped, Passes, AsksBundle
    <3>2. \A f : Sync(f, BundleReq) => ~Carries(f)
      BY DEF Carries, Sync, BundleReq, Prekey
    <3> QED BY <3>1, <3>2, Zenon DEF Carried
  <2>4. KeepsRow("I")
    BY <2>1, Zenon DEF KeepsRow, Resume, LoadSession
  <2> QED BY <1>1, <2>1, <2>2, <2>3, <2>4, Zenon DEF KeyStep, Rests
<1>3. CASE Says("I")
  BY <1>0, <1>3, SaysKeySteps, Zenon
<1>4. ASSUME NEW e \in net, SendsPrekey(e) PROVE KeyStep
  <2>1. UNCHANGED <<sealed, disk>> /\ secrets' = secrets + 1 /\ Pending' = Secret(secrets + 1)
    BY <1>4, Zenon DEF SendsPrekey, Now, Pending
  <2>2. PICK f : Sync(f, Prekey) /\ f.body = Secret(secrets + 1) /\ net' \subseteq (net \ {e}) \union {f}
    BY <1>4, Zenon DEF SendsPrekey
  <2>3. KeepsRow("I") /\ Carried(net \union {f})
    BY <2>1, <2>2, Zenon DEF KeepsRow, Resume, LoadSession, Carried
  <2> QED BY <1>1, <2>1, <2>2, <2>3, Zenon DEF KeyStep, Agrees1
<1>5. ASSUME NEW e \in net, Greets(e) PROVE KeyStep
  <2>1. Answer(e) /\ UNCHANGED secrets /\ OneChat
    BY <1>5, Zenon DEF Greets, Answer, Frame
  <2>2. PICK saved \in BOOLEAN, sent \in BOOLEAN : \E ct, r : GreetsWith(e, ct, r, saved, sent)
    BY <1>5, Zenon DEF Greets
  <2>3. PICK ct, r : GreetsWith(e, ct, r, saved, sent)
    BY <2>2, Zenon
  <2>4. /\ Pending' = None /\ Saves("I", saved, r)
        /\ sent => saved /\ r = InitiatorAt(Pending, e.body, 1)
        /\ r \in {InitiatorAt(Pending, e.body, 0), InitiatorAt(Pending, e.body, 1)}
    BY <1>0, <2>3, Zenon DEF GreetsWith, Saved, Pending, Now, Gone
  <2>5. CASE sent
    <3>1. /\ Resume("I")' = InitiatorAt(Pending, e.body, 1) /\ sealed' = sealed \union {ct}
          /\ \E text \in Ids : ct = ISealed(Pending, e.body, 0, text)
      BY <2>3, <2>4, <2>5, Zenon DEF GreetsWith, Saves, Pending
    <3>2. Sent1(ct)
      BY <2>1, <2>3 DEF GreetsWith, Sent1, Carries, Sync, GroupKey, Prekey
    <3>3. Greets1(e, ct)
      BY <1>1, <2>1, <2>4, <3>1, <3>2, Zenon DEF Greets1
    <3> QED BY <3>1, <3>3, Zenon DEF KeyStep
  <2>6. CASE ~sent
    <3>1. sealed' = sealed /\ \A f \in net' : f \in net \/ Sync(f, GroupKey)
      BY <2>3, <2>6, Zenon DEF GreetsWith
    <3>2. \A f : Sync(f, GroupKey) => ~Carries(f)
      BY DEF Carries, Sync, GroupKey, Prekey
    <3>3. Carried(net)
      BY <3>1, <3>2, Zenon DEF Carried
    <3>4. KeepsRow("I") \/ \E n \in {0, 1} : Resume("I")' = InitiatorAt(Pending, e.body, n)
      BY <2>4, Zenon DEF Saves, KeepsRow
    <3>5. Establishes1(e)
      BY <1>1, <2>1, <2>4, <3>1, <3>3, <3>4, Zenon DEF Establishes1
    <3> QED BY <3>5, Zenon DEF KeyStep
  <2> QED BY <2>5, <2>6, Zenon
<1> QED BY <1>0, <1>2, <1>3, <1>4, <1>5, Zenon DEF Acts

LEMMA ResponderKeySteps ==
    ASSUME StateInv, Saved, Frame("R"), Acts("R")
    PROVE  KeyStep
<1>0. "I" \in Parties /\ "R" \in Parties /\ "I" # "R"
  BY PartyFacts, Zenon
<1>1. KeepsRow("I") /\ Pending' = Pending
  BY <1>0, OtherKept, Zenon DEF KeepsRow, Pending
<1>2. CASE Stopped("R") \/ Passes("R")
  <2>1. UNCHANGED <<sealed, secrets, disk>> /\ net' \subseteq net
    BY <1>2, Zenon DEF Stopped, Passes, Quiet
  <2>2. Carried(net) /\ KeepsRow("R")
    BY <2>1, Zenon DEF Carried, KeepsRow, Resume, LoadSession
  <2> QED BY <1>1, <2>1, <2>2, Zenon DEF KeyStep, Rests
<1>3. ASSUME NEW e \in net, AnswersBundle(e) PROVE KeyStep
  <2>1. UNCHANGED <<sealed, secrets, disk>>
    BY <1>3, Zenon DEF AnswersBundle, Quiet
  <2>2. PICK f : Sync(f, Bundle) /\ net' \subseteq (net \ {e}) \union {f}
    BY <1>3, Zenon DEF AnswersBundle
  <2>3. ~Carries(f)
    BY <2>2 DEF Carries, Sync, Bundle, Prekey
  <2>4. Carried(net) /\ KeepsRow("R")
    BY <2>1, <2>2, <2>3, Zenon DEF Carried, KeepsRow, Resume, LoadSession
  <2> QED BY <1>1, <2>1, <2>4, Zenon DEF KeyStep, Rests
<1>4. CASE Says("R")
  BY <1>0, <1>4, SaysKeySteps, Zenon
<1>5. ASSUME NEW e \in net, TakesPrekey(e) PROVE KeyStep
  <2>1. UNCHANGED <<sealed, secrets>> /\ Sync(e, Prekey) /\ e.body \in Secrets
    BY <1>5, Zenon DEF TakesPrekey
  <2>2. PICK f : \E saved \in BOOLEAN :
            /\ Saves("R", saved, Fresh(e.body)) /\ Sync(f, RatchetPub)
            /\ net' \subseteq (net \ {e}) \union {f}
    BY <1>5, Zenon DEF TakesPrekey
  <2>3. ~Carries(f)
    BY <2>2 DEF Carries, Sync, RatchetPub, Prekey
  <2>4. Carried(net \ {e}) /\ Resume("R")' \in {Resume("R"), Fresh(e.body)}
    BY <2>2, <2>3, Zenon DEF Carried, Saves
  <2> QED BY <1>1, <2>1, <2>4, Zenon DEF KeyStep, Takes1
<1>6. ASSUME NEW e \in net, Reads(e) PROVE KeyStep
  <2>1. /\ UNCHANGED <<sealed, secrets>> /\ ChatOK(e) /\ SessionOf("R") # None
        /\ net' \subseteq net \ {e}
    BY <1>6, Zenon DEF Reads
  <2>2. SessionOf("R") = Resume("R")
    BY <1>0, Zenon DEF Saved, SessionOf
  <2>3. PICK out : /\ Opened(SessionOf("R"), e.ciphertext, out)
                   /\ \E saved \in BOOLEAN : Saves("R", saved, out.ratchet)
    BY <1>6, Zenon DEF Reads
  <2>4. Carried(net \ {e}) /\ Resume("R")' \in {Resume("R"), out.ratchet}
    BY <2>1, <2>3, Zenon DEF Carried, Saves
  <2>5. Reads1(e, out)
    BY <1>1, <2>1, <2>2, <2>3, <2>4, Zenon DEF Reads1
  <2> QED BY <2>5, Zenon DEF KeyStep
<1> QED BY <1>0, <1>2, <1>3, <1>4, <1>5, <1>6, Zenon DEF Acts

LEMMA KeySteps ==
    ASSUME StateInv, Saved, Step
    PROVE  KeyStep
<1>0. "I" \in Parties /\ "R" \in Parties /\ "I" # "R"
  BY PartyFacts, Zenon
<1>1. ASSUME UNCHANGED <<disk, secrets, sealed>>, net' \subseteq net, Pending' \in {Pending, None}
      PROVE  KeyStep
  <2>1. KeepsRow("I") /\ KeepsRow("R") /\ Carried(net)
    BY <1>1, Zenon DEF KeepsRow, Resume, LoadSession, Carried
  <2> QED BY <1>1, <2>1, Zenon DEF KeyStep, Rests
<1>2. CASE Idle
  BY <1>1, <1>2, Zenon DEF Idle, Pending
<1>3. ASSUME NEW p \in Parties, Starts(p) PROVE KeyStep
  <2>1. Pending' \in {Pending, None}
    BY <1>0, <1>3, Zenon DEF Starts, StateInv, Now, Pending
  <2> QED BY <1>1, <1>3, <2>1, Zenon DEF Starts
<1>4. ASSUME NEW p \in Parties, Frame(p), Acts(p) PROVE KeyStep
  BY <1>4, PartyFacts, InitiatorKeySteps, ResponderKeySteps, Zenon
<1> QED BY <1>2, <1>3, <1>4, OneActs, Zenon

\* Secrets have numbers: no secret in use is newer than the last PQXDH run.
Agreed(s) == s[2] \in 0..secrets
NumInv ==
    /\ Pending # None => Agreed(Pending)
    /\ \A e \in net : Sync(e, Prekey) => Agreed(e.body)
    /\ \A p \in Parties : Resume(p) # None => Agreed(SecretOf(Resume(p)))
    /\ \A ct \in sealed : Agreed(CtSecret(ct))

\* What each side has sealed so far.
Spent(ct) ==
    /\ ByInitiator(ct) => CtSecret(ct) # Pending
    /\ ByInitiator(ct) /\ Resume("I") # None /\ SecretOf(Resume("I")) = CtSecret(ct) =>
          ct.nonce < Sent(Resume("I"))
    /\ ByResponder(ct) => \A e \in net : Sync(e, Prekey) => e.body # CtSecret(ct)
    /\ ByResponder(ct) /\ Resume("R") # None /\ SecretOf(Resume("R")) = CtSecret(ct) =>
          SendKey(Resume("R")) # None /\ ct.nonce < Sent(Resume("R"))

\* A secret has one PREKEY message, one session on each side, and is then used up.
OnceInv ==
    /\ \A ct \in sealed : Spent(ct)
    /\ Resume("I") # None => SecretOf(Resume("I")) # Pending
    /\ \A e, f \in net : Sync(e, Prekey) /\ Sync(f, Prekey) /\ e.body = f.body => e = f
    /\ \A e \in net : Sync(e, Prekey) /\ Resume("R") # None => SecretOf(Resume("R")) # e.body
    /\ \A e, f \in net : e.header # None /\ f.header # None /\ e.ciphertext = f.ciphertext => e = f

\* The types the proofs below need, before a step and after it.
LEMMA KeyTypes ==
    ASSUME StateInv
    PROVE  /\ secrets \in Nat /\ (Pending # None => Pending \in Secrets)
           /\ Resume("I") # None => IsInitiator(Resume("I")) /\ SecretOf(Resume("I")) \in Secrets
           /\ Resume("R") # None => IsResponder(Resume("R")) /\ SecretOf(Resume("R")) \in Secrets
           /\ \A ct \in sealed : CtTypes(ct)
           /\ \A e \in net : Sync(e, Prekey) => e.body \in Secrets
           /\ \A e \in net : e.header # None => e.ciphertext \in sealed
<1>1. secrets \in Nat /\ (Pending # None => Pending \in Secrets)
  BY PartyFacts, Zenon DEF StateInv, AppOK, Apps, Opt, Pending
<1>2. /\ Resume("I") # None => IsInitiator(Resume("I"))
      /\ Resume("R") # None => IsResponder(Resume("R"))
  BY PartyFacts, Resumes, Zenon DEF SessOK
<1>3. \A ct \in sealed : CtTypes(ct)
  BY Zenon DEF StateInv, ByInitiator, ByResponder
<1>4. \A e \in net : Sync(e, Prekey) => e.body \in Secrets
  BY DEF StateInv, EnvOK, SyncOK, ChatOK, Sync, BundleReq, Bundle, Prekey, RatchetPub, GroupKey
<1>5. \A e \in net : e.header # None => e.ciphertext \in sealed
  BY Zenon DEF StateInv, Live
<1> QED BY <1>1, <1>2, <1>3, <1>4, <1>5, SessionTypes, Zenon

\* The new message of a step, and the row that is saved with it.
LEMMA InitiatorSealed ==
    ASSUME NEW ct, Seals1("I", ct)
    PROVE  /\ ByInitiator(ct) /\ CtSecret(ct) = SecretOf(Resume("I")) /\ ct.nonce = Sent(Resume("I"))
           /\ Sent(Resume("I")) \in Nat
           /\ SecretOf(Resume("I")') = SecretOf(Resume("I")) /\ Sent(Resume("I")') = Sent(Resume("I")) + 1
<1> DEFINE r == Resume("I")
           next == Resume("I")'
<1>1. /\ SecretOf(next) = SecretOf(r) /\ IsInitiator(r) /\ Sent(next) = Sent(r) + 1
      /\ \E text \in Ids : ct = ISealed(SecretOf(r), Public(r), Sent(r), text)
  BY PartyFacts, Zenon DEF Seals1, Seals
<1>2. PICK text \in Ids : ct = ISealed(SecretOf(r), Public(r), Sent(r), text)
  BY <1>1, Zenon
<1>3. SecretOf(r) \in Secrets /\ Public(r) \in ResponderKeys /\ Sent(r) \in Nat
  BY <1>1, Zenon DEF IsInitiator
<1> HIDE DEF r, next
<1>4. /\ CtShape(ct, SecretOf(r), Root1(SecretOf(r), Public(r)), Ik(SecretOf(r)), Sent(r), text)
      /\ ByInitiator(ct)
  BY <1>2, <1>3, InitiatorMessage, Zenon
<1>5. CtSecret(ct) = SecretOf(r) /\ ct.nonce = Sent(r)
  BY <1>4, Zenon DEF CtShape
<1> QED BY <1>1, <1>3, <1>4, <1>5, Zenon DEF r, next

LEMMA GreetingSealed ==
    ASSUME NEW e, NEW ct, Greets1(e, ct)
    PROVE  /\ ByInitiator(ct) /\ CtSecret(ct) = Pending /\ Pending \in Secrets /\ ct.nonce = 0
           /\ SecretOf(Resume("I")') = Pending /\ Sent(Resume("I")') = 1
<1>1. Pending \in Secrets /\ e.body \in ResponderKeys /\ Resume("I")' = InitiatorAt(Pending, e.body, 1)
  BY Zenon DEF Greets1, Answer, Pending
<1>2. PICK text \in Ids : ct = ISealed(Pending, e.body, 0, text)
  BY Zenon DEF Greets1
<1>3. CtShape(ct, Pending, Root1(Pending, e.body), Ik(Pending), 0, text) /\ ByInitiator(ct)
  BY <1>1, <1>2, InitiatorMessage, Zenon
<1>4. SecretOf(Resume("I")') = Pending /\ Sent(Resume("I")') = 1
  BY <1>1, InitiatorParts
<1> QED BY <1>1, <1>3, <1>4, Zenon DEF CtShape

\* A session that is established, and no greeting.
LEMMA Established ==
    ASSUME NEW e, Establishes1(e)
    PROVE  /\ Pending \in Secrets /\ Pending' = None /\ Resume("R")' = Resume("R")
           /\ Resume("I")' = Resume("I") \/ SecretOf(Resume("I")') = Pending
<1>1. Pending \in Secrets /\ e.body \in ResponderKeys
  BY Zenon DEF Establishes1, Answer, Pending
<1>2. \A n \in {0, 1} : SecretOf(InitiatorAt(Pending, e.body, n)) = Pending
  BY <1>1, InitiatorParts
<1> QED BY <1>1, <1>2, Zenon DEF Establishes1, KeepsRow

LEMMA ReplySealed ==
    ASSUME NEW ct, Seals1("R", ct)
    PROVE  /\ ByResponder(ct) /\ CtSecret(ct) = SecretOf(Resume("R")) /\ ct.nonce = NextNumber(Resume("R"))
           /\ ct.nonce \in Nat
           /\ SecretOf(Resume("R")') = SecretOf(Resume("R"))
           /\ SendKey(Resume("R")') # None /\ Sent(Resume("R")') = ct.nonce + 1
           /\ IsJoined(Resume("R")) /\ IsJoined(Resume("R")')
           /\ Read(Resume("R")') = Read(Resume("R")) /\ Kept(Resume("R")') = Kept(Resume("R"))
<1> DEFINE r == Resume("R")
           next == Resume("R")'
<1>1. /\ SecretOf(next) = SecretOf(r) /\ IsJoined(r) /\ IsJoined(next) /\ NextNumber(r) \in Nat
      /\ Read(next) = Read(r) /\ Kept(next) = Kept(r)
      /\ SendKey(next) # None /\ Sent(next) = NextNumber(r) + 1
      /\ \E text \in Ids : ct = RSealed(SecretOf(r), NextNumber(r), text)
  BY PartyFacts, Zenon DEF Seals1, Seals
<1>2. PICK text \in Ids : ct = RSealed(SecretOf(r), NextNumber(r), text)
  BY <1>1, Zenon
<1>3. SecretOf(r) \in Secrets
  BY <1>1, Zenon DEF IsJoined
<1> HIDE DEF r, next
<1>4. CtShape(ct, SecretOf(r), Root2(SecretOf(r)), Rk(SecretOf(r)), NextNumber(r), text) /\ ByResponder(ct)
  BY <1>1, <1>2, <1>3, ResponderMessage, Zenon
<1>5. CtSecret(ct) = SecretOf(r) /\ ct.nonce = NextNumber(r)
  BY <1>4, Zenon DEF CtShape
<1> QED BY <1>1, <1>3, <1>4, <1>5, Zenon DEF r, next

\* The key a message was sealed with tells its session, its side and its number.
LEMMA KeyTells ==
    ASSUME NEW a, NEW b, ByInitiator(a) \/ ByResponder(a), ByInitiator(b) \/ ByResponder(b), a.key = b.key
    PROVE  /\ CtSecret(a) = CtSecret(b) /\ a.nonce = b.nonce
           /\ ByInitiator(a) <=> ByInitiator(b)
<1> DEFINE s == CtSecret(a)
<1>1. CtSecret(b) = s
  BY Zenon DEF CtSecret
<1>2. ASSUME NEW ct, ByInitiator(ct)
      PROVE  /\ ct.nonce = ct.key.index /\ CtSecret(ct) \in Secrets
             /\ \E public \in ResponderKeys : ct.key.chain = Root1(CtSecret(ct), public)
  <2>1. PICK public \in ResponderKeys :
            CtShape(ct, CtSecret(ct), Root1(CtSecret(ct), public), Ik(CtSecret(ct)), ct.nonce, ct.text)
    BY <1>2, AuthorShape, Zenon
  <2> QED BY <1>2, <2>1, Zenon DEF CtShape, ByInitiator, CtTypes
<1>3. ASSUME NEW ct, ByResponder(ct)
      PROVE  ct.nonce = ct.key.index /\ ct.key.chain = Root2(CtSecret(ct)) /\ CtSecret(ct) \in Secrets
  <2>1. CtShape(ct, CtSecret(ct), Root2(CtSecret(ct)), Rk(CtSecret(ct)), ct.nonce, ct.text)
    BY <1>3, AuthorShape, Zenon
  <2> QED BY <1>3, <2>1, Zenon DEF CtShape, ByResponder, CtTypes
<1> HIDE DEF s
<1>4. \A public \in ResponderKeys : s \in Secrets => Root1(s, public) # Root2(s)
  BY RootFacts, Zenon
<1> QED BY <1>1, <1>2, <1>3, <1>4, Zenon DEF s

\* No message sent before has the key of the new one.
LEMMA NewKeys ==
    ASSUME StateInv, OnceInv, NEW ct,
           (\E p \in Parties : Seals1(p, ct)) \/ (\E e \in net : Greets1(e, ct))
    PROVE  /\ ByInitiator(ct) \/ ByResponder(ct)
           /\ \A b \in sealed : b.key # ct.key
<1>0. \A b \in sealed : (ByInitiator(b) \/ ByResponder(b)) /\ b.nonce \in Nat /\ Spent(b)
  BY KeyTypes, Zenon DEF StateInv, OnceInv, CtTypes
<1>1. CASE Seals1("I", ct)
  <2>1. /\ ByInitiator(ct) /\ CtSecret(ct) = SecretOf(Resume("I")) /\ ct.nonce = Sent(Resume("I"))
        /\ ct.nonce \in Nat /\ Resume("I") # None
    BY <1>1, InitiatorSealed, Zenon DEF Seals1
  <2>2. ASSUME NEW b \in sealed, b.key = ct.key PROVE FALSE
    <3>1. CtSecret(b) = CtSecret(ct) /\ b.nonce = ct.nonce /\ ByInitiator(b)
      BY <1>0, <2>1, <2>2, KeyTells, Zenon
    <3>2. b.nonce < Sent(Resume("I"))
      BY <1>0, <2>1, <3>1, Zenon DEF Spent
    <3> QED BY <2>1, <3>1, <3>2
  <2> QED BY <2>1, <2>2, Zenon
<1>2. CASE Seals1("R", ct)
  <2>1. /\ ByResponder(ct) /\ CtSecret(ct) = SecretOf(Resume("R")) /\ ct.nonce = NextNumber(Resume("R"))
        /\ ct.nonce \in Nat /\ Resume("R") # None
    BY <1>2, ReplySealed, Zenon DEF Seals1
  <2>2. ASSUME NEW b \in sealed, b.key = ct.key PROVE FALSE
    <3>1. CtSecret(b) = CtSecret(ct) /\ b.nonce = ct.nonce /\ ByResponder(b)
      BY <1>0, <2>1, <2>2, KeyTells, OneAuthor, Zenon
    <3>2. SendKey(Resume("R")) # None /\ b.nonce < Sent(Resume("R"))
      BY <1>0, <2>1, <3>1, Zenon DEF Spent
    <3> QED BY <2>1, <3>1, <3>2 DEF NextNumber
  <2> QED BY <2>1, <2>2, Zenon
<1>3. ASSUME NEW e \in net, Greets1(e, ct)
      PROVE  ByInitiator(ct) /\ \A b \in sealed : b.key # ct.key
  <2>1. ByInitiator(ct) /\ CtSecret(ct) = Pending
    BY <1>3, GreetingSealed, Zenon
  <2>2. ASSUME NEW b \in sealed, b.key = ct.key PROVE FALSE
    <3>1. CtSecret(b) = CtSecret(ct) /\ ByInitiator(b)
      BY <1>0, <2>1, <2>2, KeyTells, Zenon
    <3> QED BY <1>0, <2>1, <3>1, Zenon DEF Spent
  <2> QED BY <2>1, <2>2, Zenon
<1> QED BY <1>1, <1>2, <1>3, PartyFacts, Zenon

=============================================================================
