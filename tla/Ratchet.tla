------------------------------- MODULE Ratchet -------------------------------
(* Two sessions of the double ratchet, opened by X3DH from a prekey bundle. *)
(* Messages may be lost, reordered and delivered again.  Keys are terms: a  *)
(* key pair is a name, a Diffie-Hellman output the set of its two names, a  *)
(* derived key the list of what went into it; two keys are the same when    *)
(* their terms are, and a ciphertext opens under the key that sealed it.    *)
EXTENDS Naturals, Sequences, FiniteSets

CONSTANTS MaxSkippedKeys,  \* MAX_SKIPPED_KEYS
          MaxSent          \* bound: messages each side sends

ASSUME RatchetAssumption == MaxSkippedKeys \in Nat \ {0} /\ MaxSent \in Nat

VARIABLES bundle,   \* what the initiator was given: [signer, oneTime]
          hello,    \* what it told the responder: [eph, oneTime], or NoHello
          session,  \* the two RatchetSession values, NoSession before there is one
          sent,     \* messages on their way, for good: any may come any time
          opened    \* those each side has read

ratchetVars == <<bundle, hello, session, sent, opened>>

Sides == {"alice", "bob"}
Other(p) == IF p = "alice" THEN "bob" ELSE "alice"

(***************************************************************************)
(* X3DH                                                                    *)
(***************************************************************************)
Pair(owner, use, n) == <<owner, use, n>>
Identity(p) == Pair(p, "identity", 0)
SignedPreKey == Pair("bob", "signedPreKey", 0)
NoPair == Pair("", "", 0)
NoHello == [eph |-> NoPair, oneTime |-> FALSE]
OneTimePreKey == Pair("bob", "oneTimePreKey", 0)

ComputeDh(a, b) == {a, b}

DhValues(eph, oneTime) ==
    <<ComputeDh(Identity("alice"), SignedPreKey), ComputeDh(eph, Identity("bob")),
      ComputeDh(eph, SignedPreKey)>>
    \o IF oneTime THEN <<ComputeDh(eph, OneTimePreKey)>> ELSE <<>>

VerifySignedPreKey == bundle.signer = "bobEd25519"

(***************************************************************************)
(* The chains                                                              *)
(***************************************************************************)
KdfRoot(root, dh) == Append(root, dh)
Chain(root) == [of |-> root, step |-> 0]
NoChain == Chain(<<>>)
KdfChain(c) == [c EXCEPT !.step = @ + 1]
MessageKey(c) == c   \* one key per step of a chain

NoSession == [own |-> NoPair, their |-> NoPair, root |-> <<>>, sending |-> NoChain,
              receiving |-> NoChain, sendNo |-> 0, recvNo |-> 0, previous |-> 0, skipped |-> <<>>]

InitInitiator(secret, ours, theirs) ==
    LET root == KdfRoot(<<secret>>, ComputeDh(ours, theirs)) IN
    [NoSession EXCEPT !.own = ours, !.their = theirs, !.root = root, !.sending = Chain(root)]

InitResponder(secret, ours) == [NoSession EXCEPT !.own = ours, !.root = <<secret>>]

(* Mutation: the cache is cut while it still has room for one.             *)
BoundTight(keys) ==
    IF Len(keys) < MaxSkippedKeys THEN keys
    ELSE SubSeq(keys, Len(keys) - MaxSkippedKeys + 2, Len(keys))

(* The oldest entries go first.                                            *)
WithBoundedSkippedKeys(keys) ==
    IF Len(keys) <= MaxSkippedKeys THEN keys
    ELSE SubSeq(keys, Len(keys) - MaxSkippedKeys + 1, Len(keys))

(* The keys of the messages up to a number are put aside, one by one.      *)
SkipMessageKeys(s, until) ==
    IF s.receiving = NoChain \/ until < s.recvNo THEN s
    ELSE LET put == [i \in 1..(until - s.recvNo) |->
                        [dh |-> s.their, no |-> s.recvNo + i - 1,
                         key |-> [s.receiving EXCEPT !.step = @ + i - 1]]]
         IN [s EXCEPT !.receiving.step = @ + until - s.recvNo, !.recvNo = until,
                      !.skipped = WithBoundedSkippedKeys(@ \o put)]

ApplyDhRatchet(s, theirs, ours) ==
    LET received == KdfRoot(s.root, ComputeDh(s.own, theirs))
        sends == KdfRoot(received, ComputeDh(ours, theirs))
    IN [s EXCEPT !.own = ours, !.their = theirs, !.root = sends, !.sending = Chain(sends),
                 !.receiving = Chain(received), !.previous = s.sendNo,
                 !.sendNo = 0, !.recvNo = 0]

(***************************************************************************)
(* decryptMessage: a value or an error; the session changes with a value   *)
(***************************************************************************)
Cached(s, m) == {i \in DOMAIN s.skipped : s.skipped[i].dh = m.dh /\ s.skipped[i].no = m.no}
Without(keys, i) == SubSeq(keys, 1, i - 1) \o SubSeq(keys, i + 1, Len(keys))

(* Mutation: the key stays in the cache.                                   *)
TakeKept(s, i) == s

TakeCached(s, i) == [s EXCEPT !.skipped = Without(@, i)]

NextKeyPair(p) == Pair(p, "ratchet", Len(session[p].root))

(* The session in which the receiving chain stands at the message.         *)
CaughtUp(p, m) ==
    LET s == session[p]
        turned == IF s.their = m.dh THEN s
                  ELSE ApplyDhRatchet(SkipMessageKeys(s, m.previous), m.dh, NextKeyPair(p))
    IN SkipMessageKeys(turned, m.no)

Decrypts(p, m) ==
    IF Cached(session[p], m) # {}
    THEN \E i \in Cached(session[p], m) : session[p].skipped[i].key = m.key
    ELSE LET s == CaughtUp(p, m)
         IN m.no = s.recvNo /\ s.receiving # NoChain /\ MessageKey(s.receiving) = m.key

AfterMessage(p, m) ==
    IF Cached(session[p], m) # {}
    THEN TakeCached(session[p], CHOOSE i \in Cached(session[p], m) : TRUE)
    ELSE LET s == CaughtUp(p, m)
         IN [s EXCEPT !.receiving = KdfChain(@), !.recvNo = @ + 1]

(***************************************************************************)
(* Actions                                                                 *)
(***************************************************************************)
RatchetInit ==
    /\ bundle \in [signer : {"bobEd25519", "before rotation"}, oneTime : BOOLEAN]
    /\ hello = NoHello
    /\ session = [p \in Sides |-> NoSession]
    /\ sent = {}
    /\ opened = [p \in Sides |-> {}]

(* x3dhInitiateSender and initSession; nothing when the signature of the   *)
(* signed prekey is not the identity's.                                    *)
Initiate ==
    /\ session["alice"] = NoSession
    /\ VerifySignedPreKey
    /\ hello' = [eph |-> Pair("alice", "ephemeral", 0), oneTime |-> bundle.oneTime]
    /\ session' = [session EXCEPT !["alice"] =
          InitInitiator(DhValues(hello'.eph, bundle.oneTime), Pair("alice", "ratchet", 0), SignedPreKey)]
    /\ UNCHANGED <<bundle, sent, opened>>

Respond ==
    /\ session["bob"] = NoSession /\ hello # NoHello
    /\ session' = [session EXCEPT !["bob"] =
          InitResponder(DhValues(hello.eph, hello.oneTime), SignedPreKey)]
    /\ UNCHANGED <<bundle, hello, sent, opened>>

By(p) == {m \in sent : m.from = p}

EncryptMessage(p) ==
    /\ session[p] # NoSession
    /\ session[p].sending # NoChain
    /\ Cardinality(By(p)) < MaxSent
    /\ LET s == session[p] IN
       /\ sent' = sent \cup {[from |-> p, nth |-> Cardinality(By(p)) + 1, dh |-> s.own,
                              no |-> s.sendNo, previous |-> s.previous,
                              key |-> MessageKey(s.sending)]}
       /\ session' = [session EXCEPT ![p].sending = KdfChain(@), ![p].sendNo = @ + 1]
    /\ UNCHANGED <<bundle, hello, opened>>

DecryptMessage(p, m) ==
    /\ session[p] # NoSession /\ m \in By(Other(p))
    /\ Decrypts(p, m)
    /\ session' = [session EXCEPT ![p] = AfterMessage(p, m)]
    /\ opened' = [opened EXCEPT ![p] = @ \cup {m}]
    /\ UNCHANGED <<bundle, hello, sent>>

RatchetNext == \/ Initiate \/ Respond
        \/ \E p \in Sides : EncryptMessage(p) \/ \E m \in sent : DecryptMessage(p, m)

RatchetSpec == RatchetInit /\ [][RatchetNext]_ratchetVars

(***************************************************************************)
(* Properties                                                              *)
(***************************************************************************)
Later(m) == {n \in By(m.from) : n.nth > m.nth}

(* Whatever was lost, came twice or came out of order, a message that was  *)
(* not read opens when it comes, unless the sender has sent more later     *)
(* ones than the cache of skipped keys holds.                              *)
LateMessageOpens ==
    \A p \in Sides : session[p] # NoSession =>
        \A m \in By(Other(p)) :
            m \notin opened[p] /\ Cardinality(Later(m)) <= MaxSkippedKeys => Decrypts(p, m)

(* Once a message was read, the session holds neither its key nor a chain  *)
(* from which the key can be derived, so a repeated one is refused.        *)
OpenedIsForgotten ==
    \A p \in Sides : \A m \in opened[p] :
        LET s == session[p] IN
        /\ \A j \in DOMAIN s.skipped : s.skipped[j].key # m.key
        /\ s.receiving # NoChain => ~(s.receiving.of = m.key.of /\ s.receiving.step <= m.key.step)
=============================================================================
