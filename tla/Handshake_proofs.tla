-------------------------- MODULE Handshake_proofs --------------------------
(***************************************************************************)
(* Proofs about Handshake, for any environments, connections, labels,      *)
(* tokens, clock skews and leeway.  What load_settings makes of a field is *)
(* not looked into; what _validate_settings leaves possible is.            *)
(***************************************************************************)
EXTENDS Handshake, TLAPS

\* The server's settings are those of its environment and never change.
Loaded == env \in Environments /\ cfg = LoadSettings(env) /\ now \in Int /\ skew \in Int

\* What mint_signed_session_token writes, seen at any later time.
MintedTokens ==
  \A tk \in minted :
    /\ tk.form = "good" /\ tk.key = env["WS_AUTH_SIGNING_KEY"]
    /\ tk.iat \in Int /\ tk.exp \in Int
    /\ tk.iat <= now + skew

\* The command that mints tokens refuses a blank key.
MintedKeys == \A tk \in minted : Strip(tk.key) # ""

\* What is kept of a connection.  The labels and the identities grow with the tokens
\* that clients present, so a state has some sets of them.
Records(L, I) ==
  [state : States, limiter : {"memory", "redis", "degraded"}, hello_received : BOOLEAN,
   auth_ok : BOOLEAN, label : L, identity : I]

\* Every connection has its fields, and none is authenticated before it is open.
ConnShape ==
  /\ \E L, I : conn \in [Conns -> Records(L, I)]
  /\ \A c \in Conns : conn[c].state = "idle" => ~conn[c].auth_ok

LEMMA SettingsAreValid ==
  ASSUME NEW e, LoadSettings(e) # Refused
  PROVE  Valid(e, LoadSettings(e))
<1> DEFINE settings == [f \in Fields |-> Field(e, f)]
<1>1. LoadSettings(e) = IF (\E f \in Fields : settings[f] = Refused) \/ ~Valid(e, settings)
                          THEN Refused ELSE settings
  BY DEF LoadSettings
<1> HIDE DEF settings
<1> QED
  BY <1>1

LEMMA ServersHaveKeys ==
  ASSUME Loaded, Signed, Strip(cfg.ws_auth_signing_key_env_var) = cfg.ws_auth_signing_key_env_var
  PROVE  SigningKey # ""
<1>1. Valid(env, cfg) /\ cfg.ws_auth_mode = "signed-token"
  BY SettingsAreValid DEF Loaded, Signed
<1>2. Secret(env, cfg.ws_auth_signing_key_env_var) # ""
  BY <1>1 DEF Valid
<1> QED
  BY <1>2 DEF Secret, SigningKey

\* A token the server accepts was minted with its key: a forged one is not, by
\* assumption, good for any key a server has.
LEMMA AcceptedIsMinted ==
  ASSUME Loaded, Signed, NEW tk \in minted \cup Forgeries, tk.form # "not ascii",
         Verdict(tk) = "accepted"
  PROVE  tk \in minted /\ tk.key = SigningKey
<1>1. tk.key = SigningKey
  BY DEF Verdict
<1>2. tk.form \notin {"none", "secret", "two parts", "undecodable", "bad header", "bad claims"}
  BY DEF Verdict
<1>3. ASSUME tk \in Forgeries PROVE FALSE
  <2>0. tk.form \in TokenForms /\ (tk.form = "good" => ~KnowsKey(tk, env))
    BY <1>3, HandshakeAssumption DEF Loaded
  <2>1. tk.form = "good"
    BY <1>2, <2>0 DEF TokenForms
  <2>2. KnowsKey(tk, env)
    BY <1>1 DEF KnowsKey, Loaded, Signed, SigningKey
  <2> QED
    BY <2>0, <2>1, <2>2
<1> QED
  BY <1>1, <1>3

LEMMA InitLoaded == Init => Loaded /\ MintedTokens
BY HandshakeAssumption DEF Init, Loaded, MintedTokens

LEMMA StepLoaded ==
  ASSUME Loaded, MintedTokens, [Next]_vars
  PROVE  Loaded' /\ MintedTokens' /\ UNCHANGED <<env, cfg, skew>>
<1>1. CASE Tick
  BY <1>1 DEF Tick, Loaded, MintedTokens
<1>2. ASSUME NEW args \in MintArgs, Mint(args)
      PROVE  Loaded' /\ MintedTokens' /\ UNCHANGED <<env, cfg, skew>>
  <2>1. UNCHANGED <<env, cfg, now, skew>>
    BY <1>2 DEF Mint
  <2>2. PICK key \in MintingKeys : minted' = minted \cup
          {[form |-> "good", key |-> key, iat |-> now + skew, exp |-> now + skew + args.ttl,
            sid |-> Strip(args.sid), clt |-> Strip(args.clt),
            iss |-> Strip(args.iss), aud |-> Strip(args.aud)]}
    BY <1>2 DEF Mint
  <2> DEFINE new ==
        [form |-> "good", key |-> key, iat |-> now + skew, exp |-> now + skew + args.ttl,
         sid |-> Strip(args.sid), clt |-> Strip(args.clt),
         iss |-> Strip(args.iss), aud |-> Strip(args.aud)]
  <2>3. /\ minted' = minted \cup {new}
        /\ new.form = "good" /\ new.key = key
        /\ new.iat = now + skew /\ new.exp = now + skew + args.ttl
    BY <2>2
  <2> HIDE DEF new
  <2>4. args.ttl \in Int /\ key = env["WS_AUTH_SIGNING_KEY"]
    BY <1>2, HandshakeAssumption DEF MintingKeys
  <2>5. new.iat \in Int /\ new.exp \in Int /\ new.iat <= now + skew
    BY <2>3, <2>4 DEF Loaded
  <2>6. MintedTokens'
    BY <2>1, <2>3, <2>4, <2>5 DEF MintedTokens
  <2> QED
    BY <2>1, <2>6 DEF Loaded
<1>3. ASSUME NEW c \in Conns, Connect(c) \/ Receive(c)
      PROVE  Loaded' /\ MintedTokens' /\ UNCHANGED <<env, cfg, skew>>
  BY <1>3 DEF Connect, Receive, Granted, Loaded, MintedTokens
<1>4. CASE UNCHANGED vars
  BY <1>4 DEF vars, Loaded, MintedTokens
<1> QED
  BY <1>1, <1>2, <1>3, <1>4 DEF Next

LEMMA LoadedInvariant == Spec => [](Loaded /\ MintedTokens)
BY InitLoaded, StepLoaded, PTL DEF Spec

LEMMA KeysAreNotBlank == Spec => []MintedKeys
<1>1. Init => MintedKeys
  BY DEF Init, MintedKeys
<1>2. ASSUME MintedKeys, [Next]_vars PROVE MintedKeys'
  <2>1. ASSUME NEW args \in MintArgs, Mint(args) PROVE MintedKeys'
    <3>1. PICK key \in MintingKeys : minted' = minted \cup
            {[form |-> "good", key |-> key, iat |-> now + skew, exp |-> now + skew + args.ttl,
              sid |-> Strip(args.sid), clt |-> Strip(args.clt),
              iss |-> Strip(args.iss), aud |-> Strip(args.aud)]}
      BY <2>1 DEF Mint
    <3>2. \A tk \in minted' \ minted : tk.key = key
      BY <3>1
    <3>3. Strip(key) # ""
      BY DEF MintingKeys
    <3> QED
      BY <1>2, <3>2, <3>3 DEF MintedKeys
  <2>2. CASE UNCHANGED minted
    BY <1>2, <2>2 DEF MintedKeys
  <2>3. Tick \/ UNCHANGED vars => UNCHANGED minted
    BY DEF Tick, vars
  <2>4. \A c \in Conns : Connect(c) \/ Receive(c) => UNCHANGED minted
    BY DEF Connect, Receive, Granted
  <2> QED
    BY <1>2, <2>1, <2>2, <2>3, <2>4 DEF Next
<1> QED
  BY <1>1, <1>2, PTL DEF Spec
-----------------------------------------------------------------------------
\* A server that has started never answers a hello for want of a key, if the name of the
\* key's variable is given without blanks around it: what _validate_settings finds under
\* the name it strips is then what handle_hello finds under the name it does not.
THEOREM StartedServersHaveKeys == Spec => []NoConfigErrorAfterStart
<1>1. ASSUME Loaded PROVE NoConfigErrorAfterStart
  <2> SUFFICES ASSUME Signed, Strip(cfg.ws_auth_signing_key_env_var) = cfg.ws_auth_signing_key_env_var,
                      NEW tk \in minted \cup Forgeries
               PROVE  Verdict(tk) # "config_error"
    BY DEF NoConfigErrorAfterStart
  <2>1. SigningKey # ""
    BY <1>1, ServersHaveKeys
  <2> QED
    BY <2>1 DEF Verdict
<1> QED
  BY <1>1, LoadedInvariant, PTL
-----------------------------------------------------------------------------
\* The two ways a hello ends, for a connection with any fields.
LEMMA Authenticated ==
  ASSUME NEW L, NEW I, conn \in [Conns -> Records(L, I)], NEW c \in Conns,
         NEW label, NEW identity, Authenticate(c, label, identity)
  PROVE  /\ conn' \in [Conns -> Records(L \cup {label}, I \cup {identity})]
         /\ \A d \in Conns \ {c} : conn'[d] = conn[d]
         /\ conn'[c].label = label /\ conn'[c].identity = identity
         /\ conn'[c].state = conn[c].state
<1> DEFINE R == Records(L, I)
           S == Records(L \cup {label}, I \cup {identity})
           r == [conn[c] EXCEPT !.hello_received = TRUE, !.label = label,
                                !.auth_ok = TRUE, !.identity = identity]
<1>1. R \subseteq S
  BY DEF Records
<1>2. conn' = [conn EXCEPT ![c] = r]
  BY DEF Authenticate
<1>3. r \in S
  BY DEF Records
<1>4. r.label = label /\ r.identity = identity /\ r.state = conn[c].state
  BY DEF Records
<1>5. conn \in [Conns -> R]
  OBVIOUS
<1> HIDE DEF R, S, r
<1>6. conn' \in [Conns -> S] /\ conn'[c] = r /\ \A d \in Conns \ {c} : conn'[d] = conn[d]
  BY <1>1, <1>2, <1>3, <1>5
<1> QED
  BY <1>4, <1>6 DEF S

LEMMA HelloRefused ==
  ASSUME NEW L, NEW I, conn \in [Conns -> Records(L, I)], NEW c \in Conns, NEW label,
         NEW state \in States,
         conn' = [conn EXCEPT ![c].hello_received = TRUE, ![c].label = label, ![c].state = state]
  PROVE  /\ conn' \in [Conns -> Records(L \cup {label}, I)]
         /\ \A d \in Conns \ {c} : conn'[d] = conn[d]
         /\ conn'[c].state = state
<1> DEFINE R == Records(L, I)
           S == Records(L \cup {label}, I)
           r == [conn[c] EXCEPT !.hello_received = TRUE, !.label = label, !.state = state]
<1>1. R \subseteq S
  BY DEF Records
<1>2. conn' = [conn EXCEPT ![c] = r]
  OBVIOUS
<1>3. r \in S
  BY DEF Records
<1>4. r.state = state
  BY DEF Records
<1>5. conn \in [Conns -> R]
  OBVIOUS
<1> HIDE DEF R, S, r
<1>6. conn' \in [Conns -> S] /\ conn'[c] = r /\ \A d \in Conns \ {c} : conn'[d] = conn[d]
  BY <1>1, <1>2, <1>3, <1>5
<1> QED
  BY <1>4, <1>6 DEF S

\* A hello authenticates the connection, or leaves it closed.
LEMMA HelloEnds ==
  ASSUME NEW c \in Conns, NEW label, NEW tk, Hello(c, label, tk)
  PROVE  \/ ~Signed /\ Authenticate(c, label, Client(label))
         \/ /\ Signed /\ tk.form # "not ascii" /\ Verdict(tk) = "accepted"
            /\ Authenticate(c, tk.clt, Holder(tk))
         \/ \E state \in {"rejected", "crashed"} :
              conn' = [conn EXCEPT ![c].hello_received = TRUE, ![c].label = label,
                                   ![c].state = state]
<1>1. CASE HelloUnsigned(c, label, tk)
  BY <1>1 DEF HelloUnsigned, Reject
<1>2. CASE HelloSigned(c, label, tk)
  BY <1>2 DEF HelloSigned, Reject
<1>3. CASE HelloRaises(c, label, tk)
  BY <1>3 DEF HelloRaises
<1> QED
  BY <1>1, <1>2, <1>3 DEF Hello

LEMMA HelloHolds ==
  ASSUME Loaded, ConnShape, AuthenticatedMeansMinted,
         UNCHANGED <<env, cfg, minted>>,
         NEW c \in Conns, conn[c].state = "open",
         NEW label \in Labels, NEW tk \in minted \cup Forgeries, Hello(c, label, tk)
  PROVE  ConnShape' /\ AuthenticatedMeansMinted'
<1>1. SigningKey' = SigningKey /\ Signed' = Signed /\ minted' = minted
  BY DEF SigningKey, Signed
<1>2. PICK L, I : conn \in [Conns -> Records(L, I)]
  BY DEF ConnShape
<1>3. CASE ~Signed /\ Authenticate(c, label, Client(label))
  <2>1. /\ conn' \in [Conns -> Records(L \cup {label}, I \cup {Client(label)})]
        /\ \A d \in Conns \ {c} : conn'[d] = conn[d]
        /\ conn'[c].state = conn[c].state
    BY <1>2, <1>3, Authenticated
  <2>2. ConnShape'
    BY <2>1 DEF ConnShape
  <2>3. ~Signed'
    BY <1>1, <1>3
  <2> QED
    BY <2>2, <2>3 DEF AuthenticatedMeansMinted
<1>4. CASE /\ Signed /\ tk.form # "not ascii" /\ Verdict(tk) = "accepted"
           /\ Authenticate(c, tk.clt, Holder(tk))
  <2>1. /\ conn' \in [Conns -> Records(L \cup {tk.clt}, I \cup {Holder(tk)})]
        /\ \A d \in Conns \ {c} : conn'[d] = conn[d]
        /\ conn'[c].state = conn[c].state
        /\ conn'[c].label = tk.clt /\ conn'[c].identity = Holder(tk)
    BY <1>2, <1>4, Authenticated, ZenonT(30)
  <2>2. ConnShape'
    BY <2>1 DEF ConnShape
  <2>3. tk \in minted /\ tk.key = SigningKey
    BY <1>4, AcceptedIsMinted
  <2> SUFFICES ASSUME NEW d \in Conns, conn'[d].state = "open", conn'[d].auth_ok
               PROVE  \E t \in minted : /\ t.key = SigningKey
                                        /\ conn'[d].identity = Holder(t)
                                        /\ conn'[d].label = t.clt
    BY <1>1, <2>2 DEF AuthenticatedMeansMinted, Holder
  <2>4. CASE d = c
    BY <2>1, <2>3, <2>4
  <2>5. CASE d # c
    BY <1>4, <2>1, <2>5 DEF AuthenticatedMeansMinted
  <2> QED
    BY <2>4, <2>5
<1>5. ASSUME NEW state \in {"rejected", "crashed"},
             conn' = [conn EXCEPT ![c].hello_received = TRUE, ![c].label = label,
                                  ![c].state = state]
      PROVE  ConnShape' /\ AuthenticatedMeansMinted'
  <2>1. /\ conn' \in [Conns -> Records(L \cup {label}, I)]
        /\ \A d \in Conns \ {c} : conn'[d] = conn[d]
        /\ conn'[c].state = state
    BY <1>2, <1>5, HelloRefused DEF States
  <2>2. ConnShape'
    BY <2>1 DEF ConnShape
  <2>3. AuthenticatedMeansMinted'
    BY <1>1, <2>1 DEF AuthenticatedMeansMinted, Holder
  <2> QED
    BY <2>2, <2>3
<1> QED
  BY <1>3, <1>4, <1>5, HelloEnds

LEMMA ConnectHolds ==
  ASSUME ConnShape, AuthenticatedMeansMinted, NEW c \in Conns, Connect(c)
  PROVE  ConnShape' /\ AuthenticatedMeansMinted'
<1>1. PICK L, I : conn \in [Conns -> Records(L, I)]
  BY DEF ConnShape
<1>2. PICK limiter \in {"memory", "redis", "degraded"} :
        conn' = [conn EXCEPT ![c].state = "open", ![c].limiter = limiter]
  BY DEF Connect
<1> DEFINE R == Records(L, I)
           r == [conn[c] EXCEPT !.state = "open", !.limiter = limiter]
<1>3. conn' = [conn EXCEPT ![c] = r]
  BY <1>2
<1>4. r \in R /\ r.auth_ok = conn[c].auth_ok /\ r.state = "open"
  BY <1>1, <1>2 DEF Records, States
<1>5. conn \in [Conns -> R]
  BY <1>1
<1>6. ~conn[c].auth_ok
  BY DEF ConnShape, Connect
<1>7. UNCHANGED <<env, cfg, minted>>
  BY DEF Connect
<1> HIDE DEF R, r
<1>8. conn' \in [Conns -> R] /\ conn'[c] = r /\ \A d \in Conns \ {c} : conn'[d] = conn[d]
  BY <1>3, <1>4, <1>5
<1>9. ConnShape'
  BY <1>4, <1>8 DEF ConnShape, R
<1>10. ~conn'[c].auth_ok
  BY <1>4, <1>6, <1>8
<1>11. AuthenticatedMeansMinted'
  BY <1>7, <1>8, <1>10 DEF AuthenticatedMeansMinted, SigningKey, Signed, Holder
<1> QED
  BY <1>9, <1>11

LEMMA StepHolds ==
  ASSUME Loaded, MintedTokens, ConnShape, AuthenticatedMeansMinted, [Next]_vars
  PROVE  ConnShape' /\ AuthenticatedMeansMinted'
<1>1. CASE Tick \/ UNCHANGED vars
  BY <1>1 DEF Tick, vars, ConnShape, AuthenticatedMeansMinted, SigningKey, Signed, Holder
<1>2. ASSUME NEW args \in MintArgs, Mint(args)
      PROVE  ConnShape' /\ AuthenticatedMeansMinted'
  <2>1. UNCHANGED <<env, cfg, conn>> /\ minted \subseteq minted'
    BY <1>2 DEF Mint
  <2>2. SigningKey' = SigningKey /\ Signed' = Signed
    BY <2>1 DEF SigningKey, Signed
  <2> QED
    BY <2>1, <2>2 DEF ConnShape, AuthenticatedMeansMinted, Holder
<1>3. ASSUME NEW c \in Conns, Connect(c)
      PROVE  ConnShape' /\ AuthenticatedMeansMinted'
  BY <1>3, ConnectHolds
<1>4. ASSUME NEW c \in Conns, Receive(c), UNCHANGED conn
      PROVE  ConnShape' /\ AuthenticatedMeansMinted'
  BY <1>4 DEF Receive, Granted, ConnShape, AuthenticatedMeansMinted, SigningKey, Signed, Holder
<1>5. ASSUME NEW c \in Conns, Receive(c), NEW label \in Labels, NEW tk \in minted \cup Forgeries,
             Hello(c, label, tk)
      PROVE  ConnShape' /\ AuthenticatedMeansMinted'
  <2>1. conn[c].state = "open" /\ UNCHANGED <<env, cfg, minted>>
    BY <1>5 DEF Receive, Granted
  <2> QED
    BY <1>5, <2>1, HelloHolds
<1> QED
  BY <1>1, <1>2, <1>3, <1>4, <1>5 DEF Next, Receive

LEMMA ConnectionsInvariant == Spec => [](ConnShape /\ AuthenticatedMeansMinted)
<1>1. Init => ConnShape /\ AuthenticatedMeansMinted
  <2> SUFFICES ASSUME Init PROVE ConnShape /\ AuthenticatedMeansMinted
    OBVIOUS
  <2>1. conn \in [Conns -> Records({"unknown"}, {Anonymous(c) : c \in Conns})]
    BY DEF Init, Records, States
  <2>2. \A c \in Conns : conn[c].state = "idle" /\ ~conn[c].auth_ok
    BY DEF Init
  <2> QED
    BY <2>1, <2>2 DEF ConnShape, AuthenticatedMeansMinted
<1> QED
  BY <1>1, StepHolds, LoadedInvariant, PTL DEF Spec

\* With signed tokens an authenticated connection holds a minted token, under the
\* token's own client name, whichever hellos it sent.
THEOREM AuthenticatedConnectionsHoldTokens == Spec => []AuthenticatedMeansMinted
BY ConnectionsInvariant, PTL
-----------------------------------------------------------------------------
\* The server a token is meant for accepts it until it expires where it was minted,
\* if the two clocks differ by no more than the leeway.
THEOREM PunctualTokensAreAccepted == Spec => []PunctualTokenAccepted
<1>1. ASSUME Loaded, MintedTokens, MintedKeys PROVE PunctualTokenAccepted
  <2> SUFFICES ASSUME Signed, skew \in (-Leeway)..Leeway, NEW tk \in minted,
                      MeantForServer(tk), now + skew < tk.exp
               PROVE  Verdict(tk) = "accepted"
    BY DEF PunctualTokenAccepted
  <2>1. /\ tk.form = "good" /\ tk.iat \in Int /\ tk.exp \in Int /\ tk.iat <= now + skew
        /\ now \in Int /\ skew \in Int /\ Leeway \in Nat
    BY <1>1, HandshakeAssumption DEF Loaded, MintedTokens
  <2>2. ~(tk.iat > now + Leeway) /\ ~(tk.exp <= now - Leeway)
    BY <2>1
  <2>3. tk.key = SigningKey /\ Strip(tk.key) # ""
    BY <1>1 DEF MintedTokens, MintedKeys, MeantForServer
  <2>4. SigningKey # ""
    BY <2>3 DEF Strip
  <2> QED
    BY <2>1, <2>2, <2>3, <2>4 DEF Verdict, MeantForServer
<1> QED
  BY <1>1, LoadedInvariant, KeysAreNotBlank, PTL

\* A token is refused when its time to live has passed since it was minted, allowing
\* for the leeway and for what the minting clock was ahead.
THEOREM LateTokensAreRefused == Spec => []LateTokenRefused
<1>1. ASSUME Loaded, MintedTokens PROVE LateTokenRefused
  <2> SUFFICES ASSUME Signed, NEW tk \in minted, NEW args \in MintArgs,
                      tk.exp - tk.iat = args.ttl,
                      now - (tk.iat - skew) >= args.ttl + Leeway + skew
               PROVE  Verdict(tk) # "accepted"
    BY DEF LateTokenRefused
  <2>1. /\ tk.iat \in Int /\ tk.exp \in Int /\ now \in Int /\ skew \in Int /\ Leeway \in Nat
        /\ args.ttl \in Int
    BY <1>1, HandshakeAssumption DEF Loaded, MintedTokens
  <2>2. tk.exp <= now - Leeway
    BY <2>1
  <2> QED
    BY <2>2 DEF Verdict
<1> QED
  BY <1>1, LoadedInvariant, PTL
-----------------------------------------------------------------------------
(***************************************************************************)
(* What is counted.  A connection counts under its identity, which is that *)
(* of a token from the moment it is authenticated.                         *)
(***************************************************************************)
SpentInv == spent \in [Conns \X Identities -> Nat] /\ OnlyHoldersSpend

LEMMA SpentGranted ==
  ASSUME AuthenticatedMeansMinted, SpentInv, NEW c \in Conns, Granted(c)
  PROVE  SpentInv'
<1>0. PICK key : key = IdentityKey(c)
  OBVIOUS
<1>1. /\ spent' = [spent EXCEPT ![<<c, key>>] = @ + 1] /\ conn[c].state = "open"
      /\ UNCHANGED <<env, cfg, minted>> /\ spent \in [Conns \X Identities -> Nat]
  BY <1>0 DEF Granted, SpentInv
<1>2. spent' \in [Conns \X Identities -> Nat]
  <2> DEFINE Pairs == Conns \X Identities
             at == <<c, key>>
  <2>1. spent \in [Pairs -> Nat] /\ spent' = [spent EXCEPT ![at] = @ + 1]
    BY <1>1
  <2> HIDE DEF Pairs, at
  <2>2. PICK n : n = spent[at] + 1
    OBVIOUS
  <2>3. at \in Pairs => n \in Nat
    BY <2>1, <2>2
  <2>4. spent' = [spent EXCEPT ![at] = n]
    BY <2>1, <2>2
  <2>5. spent' \in [Pairs -> Nat]
    BY <2>1, <2>3, <2>4
  <2> QED
    BY <2>5 DEF Pairs
<1>3. SigningKey' = SigningKey /\ Signed' = Signed
  BY <1>1 DEF SigningKey, Signed
<1>4. ASSUME Signed, NEW d \in Conns, NEW i \in Identities \ {Anonymous(d)}, spent'[<<d, i>>] > 0
      PROVE  \E tk \in minted : tk.key = SigningKey /\ i = Holder(tk)
  <2>1. CASE d = c /\ i = key
    <3>1. conn[c].auth_ok /\ key = conn[c].identity
      BY <1>0, <1>4, <2>1 DEF IdentityKey
    <3> QED
      BY <1>1, <1>4, <2>1, <3>1 DEF AuthenticatedMeansMinted
  <2>2. CASE ~(d = c /\ i = key)
    <3>1. spent'[<<d, i>>] = spent[<<d, i>>]
      BY <1>1, <2>2
    <3> QED
      BY <1>4, <3>1 DEF SpentInv, OnlyHoldersSpend
  <2> QED
    BY <2>1, <2>2
<1>5. OnlyHoldersSpend'
  BY <1>1, <1>3, <1>4 DEF OnlyHoldersSpend, Anonymous, Holder
<1> QED
  BY <1>2, <1>5 DEF SpentInv

LEMMA SpentInvariant == Spec => []SpentInv
<1>1. Init => SpentInv
  BY DEF Init, SpentInv, OnlyHoldersSpend
<1>2. ASSUME AuthenticatedMeansMinted, SpentInv, [Next]_vars PROVE SpentInv'
  <2>1. CASE UNCHANGED <<env, cfg, spent>> /\ minted \subseteq minted'
    <3>1. SigningKey' = SigningKey /\ Signed' = Signed
      BY <2>1 DEF SigningKey, Signed
    <3> QED
      BY <1>2, <2>1, <3>1 DEF SpentInv, OnlyHoldersSpend, Anonymous, Holder
  <2>2. Tick \/ UNCHANGED vars => UNCHANGED <<env, cfg, spent>> /\ minted \subseteq minted'
    BY DEF Tick, vars
  <2>3. \A args \in MintArgs : Mint(args) => UNCHANGED <<env, cfg, spent>> /\ minted \subseteq minted'
    BY DEF Mint
  <2>4. \A c \in Conns : Connect(c) => UNCHANGED <<env, cfg, spent>> /\ minted \subseteq minted'
    BY DEF Connect
  <2>5. \A c \in Conns : Receive(c) => Granted(c)
    BY DEF Receive
  <2> QED
    BY <1>2, <2>1, <2>2, <2>3, <2>4, <2>5, SpentGranted DEF Next
<1> QED
  BY <1>1, <1>2, ConnectionsInvariant, PTL DEF Spec

\* With signed tokens nobody spends the budget of a client but the holder of a token
\* that was minted for it with the server's key.
THEOREM HoldersSpendTheirs == Spec => []OnlyHoldersSpend
BY SpentInvariant, PTL DEF SpentInv
-----------------------------------------------------------------------------
\* Every identity a connection has, or a token could give it, is one that is counted.
Named ==
  /\ now \in 0..MaxTime /\ skew \in Skews
  /\ \A tk \in minted : Holder(tk) \in Identities
  /\ \A c \in Conns : conn[c].identity \in Identities

LEMMA NamedMint ==
  ASSUME Named, NEW args \in MintArgs, Mint(args)
  PROVE  Named'
<1>1. PICK key \in MintingKeys : minted' = minted \cup
        {[form |-> "good", key |-> key, iat |-> now + skew, exp |-> now + skew + args.ttl,
          sid |-> Strip(args.sid), clt |-> Strip(args.clt),
          iss |-> Strip(args.iss), aud |-> Strip(args.aud)]}
  BY DEF Mint
<1> DEFINE new ==
      [form |-> "good", key |-> key, iat |-> now + skew, exp |-> now + skew + args.ttl,
       sid |-> Strip(args.sid), clt |-> Strip(args.clt),
       iss |-> Strip(args.iss), aud |-> Strip(args.aud)]
<1>2. new.sid = Strip(args.sid) /\ new.clt = Strip(args.clt)
  OBVIOUS
<1>3. minted' = minted \cup {new}
  BY <1>1
<1> HIDE DEF new
<1>4. Holder(new) = <<"sid", Strip(args.sid), Strip(args.clt)>>
  BY <1>2 DEF Holder
<1>5. <<"sid", Strip(args.sid), Strip(args.clt)>> \in Identities
  BY DEF Identities, Holder
<1>6. \A tk \in minted' : Holder(tk) \in Identities
  BY <1>3, <1>4, <1>5 DEF Named
<1>7. UNCHANGED <<now, skew, conn>>
  BY DEF Mint
<1> QED
  BY <1>6, <1>7 DEF Named, Holder

LEMMA NamedHello ==
  ASSUME Loaded, Named, ConnShape, UNCHANGED <<env, cfg, now, skew, minted>>,
         NEW c \in Conns, NEW label \in Labels, NEW tk \in minted \cup Forgeries, Hello(c, label, tk)
  PROVE  Named'
<1>1. PICK L, I : conn \in [Conns -> Records(L, I)]
  BY DEF ConnShape
<1>2. ASSUME NEW l, NEW identity \in Identities, Authenticate(c, l, identity)
      PROVE  \A d \in Conns : conn'[d].identity \in Identities
  <2>1. conn'[c].identity = identity /\ \A d \in Conns \ {c} : conn'[d] = conn[d]
    BY <1>1, <1>2, Authenticated, ZenonT(30)
  <2> QED
    BY <1>2, <2>1 DEF Named
<1>3. ASSUME NEW state \in {"rejected", "crashed"},
             conn' = [conn EXCEPT ![c].hello_received = TRUE, ![c].label = label, ![c].state = state]
      PROVE  \A d \in Conns : conn'[d].identity \in Identities
  BY <1>1, <1>3 DEF Named, Records
<1>4. Client(label) \in Identities
  BY DEF Identities
<1>5. Signed /\ tk.form # "not ascii" /\ Verdict(tk) = "accepted" => Holder(tk) \in Identities
  BY AcceptedIsMinted DEF Named
<1>6. \A d \in Conns : conn'[d].identity \in Identities
  BY <1>2, <1>3, <1>4, <1>5, HelloEnds
<1> QED
  BY <1>6 DEF Named, Holder

LEMMA NamedStep ==
  ASSUME Loaded, ConnShape, Named, [Next]_vars
  PROVE  Named'
<1>1. CASE Tick
  BY <1>1, HandshakeAssumption DEF Tick, Named, Holder
<1>2. ASSUME NEW args \in MintArgs, Mint(args) PROVE Named'
  BY <1>2, NamedMint
<1>3. ASSUME NEW c \in Conns, Connect(c) PROVE Named'
  <2>1. PICK L, I : conn \in [Conns -> Records(L, I)]
    BY DEF ConnShape
  <2>2. PICK limiter \in {"memory", "redis", "degraded"} :
          conn' = [conn EXCEPT ![c].state = "open", ![c].limiter = limiter]
    BY <1>3 DEF Connect
  <2>3. \A d \in Conns : conn'[d].identity = conn[d].identity
    BY <2>1, <2>2 DEF Records
  <2>4. UNCHANGED <<now, skew, minted>>
    BY <1>3 DEF Connect
  <2> QED
    BY <2>3, <2>4 DEF Named, Holder
<1>4. ASSUME NEW c \in Conns, Receive(c) PROVE Named'
  <2>1. UNCHANGED <<env, cfg, now, skew, minted>>
    BY <1>4 DEF Receive, Granted
  <2>2. CASE UNCHANGED conn
    BY <2>1, <2>2 DEF Named, Holder
  <2>3. ASSUME NEW label \in Labels, NEW tk \in minted \cup Forgeries, Hello(c, label, tk)
        PROVE  Named'
    BY <2>1, <2>3, NamedHello
  <2> QED
    BY <1>4, <2>2, <2>3 DEF Receive
<1>5. CASE UNCHANGED vars
  BY <1>5 DEF vars, Named, Holder
<1> QED
  BY <1>1, <1>2, <1>3, <1>4, <1>5 DEF Next

LEMMA TypeOfParts ==
  ASSUME Loaded, ConnShape, Named, SpentInv
  PROVE  TypeOK
<1>1. PICK L, I : conn \in [Conns -> Records(L, I)]
  BY DEF ConnShape
<1>2. DOMAIN conn = Conns /\ ConnTypeOK
  BY <1>1 DEF Records, ConnTypeOK, Named
<1> QED
  BY <1>2 DEF TypeOK, Loaded, Named, SpentInv

\* The state keeps its types; in particular no client ever gets an identity that is not
\* its own session's, a name it may give itself, or that of a token someone minted.
THEOREM HandshakeTypeCorrect == Spec => []TypeOK
<1>1. Init => Named
  BY HandshakeAssumption DEF Init, Named, Identities
<1> QED
  BY <1>1, NamedStep, LoadedInvariant, ConnectionsInvariant, SpentInvariant, TypeOfParts, PTL DEF
     Spec
=============================================================================
