----------------------------- MODULE Handshake -----------------------------
(***************************************************************************)
(* Who a connection is: auth_tokens.py mints and verifies signed session   *)
(* tokens, handle_hello authenticates a connection with one, and the       *)
(* identity that comes of it is the one its messages are counted under.    *)
(* A server is started from an environment, clients connect, say hello     *)
(* with any token they have, and send; tokens are minted on a host whose   *)
(* clock differs from the server's.  The instances stay within one         *)
(* rate-limit window; MemoryRateLimiter and RedisRateLimiter have the      *)
(* windows.                                                                *)
(***************************************************************************)
EXTENDS Configuration, FiniteSets, Functions

CONSTANTS
  Conns,         \* connections, each with a session_id of its own
  Environments,  \* the environments a server may be started in
  Labels,        \* what clients call themselves in session.hello
  MintArgs,      \* [ttl, sid, clt, iss, aud]: what tokens are minted for
  Forgeries,     \* tokens that mint_signed_session_token did not make
  Leeway,        \* leeway_seconds of verify_signed_session_token
  Skews,         \* how far the minting host's clock may be ahead of the server's
  MaxTime, MaxTokens, MaxMessages   \* bounds

VARIABLES
  env, cfg,  \* os.environ and the Settings loaded from it
  now,       \* time.time() of the server
  skew,
  minted,    \* the tokens minted so far
  conn,      \* per connection: its state, rate limiter and SessionState
  spent      \* how many messages of a connection were counted under an identity

vars == <<env, cfg, now, skew, minted, conn, spent>>

TokenForms == {"none", "secret", "two parts", "not ascii", "undecodable", "bad header",
               "bad claims", "good"}

\* Was tk made with the signing key of the server that starts in e?
KnowsKey(tk, e) ==
  /\ LoadSettings(e) # Refused
  /\ tk.key = Getenv(e, LoadSettings(e).ws_auth_signing_key_env_var)

ASSUME HandshakeAssumption ==
  /\ IsFiniteSet(Conns)
  /\ \A e \in Environments, f \in DOMAIN IntMinimum :
       Raw(e, f) \notin {Unset, NotANumber} => Raw(e, f) \in Int
  /\ MaxTime \in Nat /\ Leeway \in Nat /\ MaxTokens \in Nat /\ MaxMessages \in Nat
  /\ Skews \subseteq Int
  /\ \A a \in MintArgs : a.ttl \in Int
  /\ \A tk \in Forgeries : tk.form \in TokenForms
  /\ \A tk \in Forgeries, e \in Environments : tk.form = "good" => ~KnowsKey(tk, e)
  /\ "unknown" \in Labels

Anonymous(c) == <<"anon", c>>
Client(label) == <<"client", label>>
Holder(tk) == <<"sid", tk.sid, tk.clt>>

Identities == {Anonymous(c) : c \in Conns} \cup {Client(l) : l \in Labels}
                \cup {Holder([sid |-> Strip(a.sid), clt |-> Strip(a.clt)]) : a \in MintArgs}

Signed == cfg # Refused /\ cfg.ws_auth_mode = "signed-token"

\* What handle_hello reads: unlike _validate_settings, it takes the variable's name as it is.
SigningKey == Getenv(env, cfg.ws_auth_signing_key_env_var)

\* MUTANT of IdentityKey: a client is counted under the name it gives itself.
IdentityKeyOfLabel(c) == IF conn[c].hello_received THEN Client(conn[c].label) ELSE Anonymous(c)

\* _identity_key.  The session_id is part of the anonymous key with or without the
\* client's address, so the address tells no two of these keys apart.
IdentityKey(c) == IF conn[c].auth_ok THEN conn[c].identity ELSE Anonymous(c)

Init ==
  /\ env \in Environments
  /\ cfg = LoadSettings(env)
  /\ now = 0
  /\ skew \in Skews
  /\ minted = {}
  /\ conn = [c \in Conns |-> [state |-> "idle", limiter |-> "memory", hello_received |-> FALSE,
                              auth_ok |-> FALSE, label |-> "unknown", identity |-> Anonymous(c)]]
  /\ spent = [ci \in Conns \X Identities |-> 0]
-----------------------------------------------------------------------------
(***************************************************************************)
(* Tokens.  A signature is the key it was made with.                       *)
(***************************************************************************)

\* _read_key_from_env: a blank key is refused, any other is used as it is.
MintingKeys == {key \in {env["WS_AUTH_SIGNING_KEY"]} \ {Unset} : Strip(key) # ""}

\* mint_signed_session_token in `ralleh-voice-token mint`
Mint(args) == \E key \in MintingKeys :
  /\ Cardinality(minted) < MaxTokens
  /\ Strip(args.sid) # "" /\ Strip(args.clt) # "" /\ args.ttl >= 1
  /\ minted' = minted \cup
       {[form |-> "good", key |-> key, iat |-> now + skew, exp |-> now + skew + args.ttl,
         sid |-> Strip(args.sid), clt |-> Strip(args.clt),
         iss |-> Strip(args.iss), aud |-> Strip(args.aud)]}
  /\ UNCHANGED <<env, cfg, now, skew, conn, spent>>

\* MUTANT of Verdict: no leeway for a token minted by a clock that is ahead.
VerdictStrict(tk) ==
  IF tk.form = "none"                                  THEN "missing_token"
  ELSE IF SigningKey = ""                              THEN "config_error"
  ELSE IF tk.form \in {"secret", "two parts"}          THEN "bad_format"
  ELSE IF tk.key # SigningKey                          THEN "bad_signature"
  ELSE IF tk.form \in {"undecodable", "bad header"}    THEN "bad_format"
  ELSE IF tk.form = "bad claims" \/ tk.iat > now       THEN "invalid_claim"
  ELSE IF tk.exp <= now - Leeway                       THEN "expired"
  ELSE IF \/ Strip(cfg.ws_auth_token_issuer) \notin {"", tk.iss}
          \/ Strip(cfg.ws_auth_token_audience) \notin {"", tk.aud} THEN "invalid_claim"
  ELSE "accepted"

\* MUTANT of Verdict: the leeway is added to the expiry on the wrong side.
VerdictLate(tk) ==
  IF tk.form = "none"                                  THEN "missing_token"
  ELSE IF SigningKey = ""                              THEN "config_error"
  ELSE IF tk.form \in {"secret", "two parts"}          THEN "bad_format"
  ELSE IF tk.key # SigningKey                          THEN "bad_signature"
  ELSE IF tk.form \in {"undecodable", "bad header"}    THEN "bad_format"
  ELSE IF tk.form = "bad claims" \/ tk.iat > now + Leeway THEN "invalid_claim"
  ELSE IF tk.exp + Leeway <= now - Leeway              THEN "expired"
  ELSE IF \/ Strip(cfg.ws_auth_token_issuer) \notin {"", tk.iss}
          \/ Strip(cfg.ws_auth_token_audience) \notin {"", tk.aud} THEN "invalid_claim"
  ELSE "accepted"

\* verify_signed_session_token, called for a token handle_hello found non-empty:
\* the reason of the AuthTokenError, or "accepted".
Verdict(tk) ==
  IF tk.form = "none"                                  THEN "missing_token"
  ELSE IF SigningKey = ""                              THEN "config_error"
  ELSE IF tk.form \in {"secret", "two parts"}          THEN "bad_format"
  ELSE IF tk.key # SigningKey                          THEN "bad_signature"
  ELSE IF tk.form \in {"undecodable", "bad header"}    THEN "bad_format"
  ELSE IF tk.form = "bad claims" \/ tk.iat > now + Leeway THEN "invalid_claim"
  ELSE IF tk.exp <= now - Leeway                       THEN "expired"
  ELSE IF \/ Strip(cfg.ws_auth_token_issuer) \notin {"", tk.iss}
          \/ Strip(cfg.ws_auth_token_audience) \notin {"", tk.aud} THEN "invalid_claim"
  ELSE "accepted"

\* `secrets.compare_digest` with the shared secret, looked up under the name as it is.
SharedSecretVerdict(tk) ==
  IF tk.form = "none" THEN "missing_token"
  ELSE IF tk.key = Getenv(env, cfg.ws_auth_token_env_var) THEN "accepted" ELSE "bad_signature"
-----------------------------------------------------------------------------
(***************************************************************************)
(* Connections.                                                            *)
(***************************************************************************)
Tick ==
  /\ now < MaxTime
  /\ now' = now + 1
  /\ UNCHANGED <<env, cfg, skew, minted, conn, spent>>

\* VoiceSessionHandler.__init__ with build_rate_limiter: a limiter for this
\* connection, in memory if it is configured or if Redis does not answer.
Connect(c) ==
  /\ cfg # Refused
  /\ conn[c].state = "idle"
  /\ \E limiter \in IF cfg.ws_rate_limit_backend = "redis" THEN {"redis", "degraded"} ELSE {"memory"} :
       conn' = [conn EXCEPT ![c].state = "open", ![c].limiter = limiter]
  /\ UNCHANGED <<env, cfg, now, skew, minted, spent>>

\* The connections that count on the same counters as c.
SharesWith(c) == IF conn[c].limiter = "redis" THEN {d \in Conns : conn[d].limiter = "redis"} ELSE {c}

Counted(c, i) == SumFunctionOnSet([d \in Conns |-> spent[<<d, i>>]], SharesWith(c))

\* receive_text and allow_event: a message is counted under the identity the
\* connection has when it arrives.  Over the limit, RATE_LIMITED is all that happens.
Granted(c) ==
  /\ conn[c].state = "open"
  /\ Counted(c, IdentityKey(c)) < cfg.ws_rate_limit_events_per_window
  /\ SumFunction(spent) < MaxMessages
  /\ spent' = [spent EXCEPT ![<<c, IdentityKey(c)>>] = @ + 1]
  /\ UNCHANGED <<env, cfg, now, skew, minted>>

\* MUTANT of Reject: the connection is not closed.
RejectOpen(c, label) ==
  conn' = [conn EXCEPT ![c].hello_received = TRUE, ![c].label = label]

\* auth_fail_and_close.  The label of the hello is recorded before it is checked.
Reject(c, label) ==
  conn' = [conn EXCEPT ![c].hello_received = TRUE, ![c].label = label, ![c].state = "rejected"]

Authenticate(c, label, identity) ==
  conn' = [conn EXCEPT ![c].hello_received = TRUE, ![c].label = label,
                       ![c].auth_ok = TRUE, ![c].identity = identity]

\* handle_hello with authentication off or a shared secret: the client is who it says.
HelloUnsigned(c, label, tk) ==
  LET verdict == IF cfg.ws_auth_mode = "off" THEN "accepted" ELSE SharedSecretVerdict(tk) IN
  /\ ~Signed
  /\ cfg.ws_auth_mode = "off" \/ tk.form # "not ascii"
  /\ IF verdict = "accepted" THEN Authenticate(c, label, Client(label)) ELSE Reject(c, label)

\* handle_hello with a signed token: the token says who the client is, and a
\* client that gives itself another name is refused.
HelloSigned(c, label, tk) ==
  LET mismatch == label \notin {"unknown", tk.clt}
      verdict  == IF Verdict(tk) = "accepted" /\ mismatch THEN "invalid_claim" ELSE Verdict(tk)
  IN
  /\ Signed
  /\ tk.form # "not ascii"
  /\ IF verdict = "accepted" THEN Authenticate(c, tk.clt, Holder(tk)) ELSE Reject(c, label)

\* A token that is not ASCII: str.encode or compare_digest raises what neither
\* handle_hello nor run() catches.
HelloRaises(c, label, tk) ==
  /\ cfg.ws_auth_mode # "off"
  /\ tk.form = "not ascii"
  /\ conn' = [conn EXCEPT ![c].hello_received = TRUE, ![c].label = label, ![c].state = "crashed"]

Hello(c, label, tk) ==
  HelloUnsigned(c, label, tk) \/ HelloSigned(c, label, tk) \/ HelloRaises(c, label, tk)

\* A message that is not a session.hello changes nothing here but the count.
Receive(c) ==
  /\ Granted(c)
  /\ \/ UNCHANGED conn
     \/ \E label \in Labels, tk \in minted \cup Forgeries : Hello(c, label, tk)

Next ==
  \/ Tick
  \/ \E args \in MintArgs : Mint(args)
  \/ \E c \in Conns : Connect(c) \/ Receive(c)

Spec == Init /\ [][Next]_vars
-----------------------------------------------------------------------------
States == {"idle", "open", "rejected", "crashed"}

ConnTypeOK ==
  \A c \in Conns :
    /\ DOMAIN conn[c] = {"state", "limiter", "hello_received", "auth_ok", "label", "identity"}
    /\ conn[c].state \in States
    /\ conn[c].limiter \in {"memory", "redis", "degraded"}
    /\ conn[c].hello_received \in BOOLEAN /\ conn[c].auth_ok \in BOOLEAN
    /\ conn[c].identity \in Identities

TypeOK ==
  /\ env \in Environments /\ cfg = LoadSettings(env)
  /\ now \in 0..MaxTime /\ skew \in Skews
  /\ DOMAIN conn = Conns /\ ConnTypeOK
  /\ spent \in [Conns \X Identities -> Nat]

\* A server that has started has what it needs to check a token: AUTH_CONFIG_ERROR,
\* which handle_hello can send, is never the answer to a hello, unless the variable that
\* names the key's variable has blanks around the name: _validate_settings looks without
\* them and handle_hello with them.
NoConfigErrorAfterStart ==
  Signed /\ Strip(cfg.ws_auth_signing_key_env_var) = cfg.ws_auth_signing_key_env_var =>
    \A tk \in minted \cup Forgeries : Verdict(tk) # "config_error"

\* With signed tokens, an open connection that is authenticated is the holder of a
\* token made with the server's key, under the client name of that token, whatever
\* other hellos with other names and tokens it sent before or after.
AuthenticatedMeansMinted ==
  \A c \in Conns :
    conn[c].state = "open" /\ conn[c].auth_ok /\ Signed =>
      \E tk \in minted : /\ tk.key = SigningKey
                         /\ conn[c].identity = Holder(tk)
                         /\ conn[c].label = tk.clt

\* The token was minted with the server's key, as the environment spells it, for
\* the issuer and the audience the server asks for.
MeantForServer(tk) ==
  /\ env["WS_AUTH_SIGNING_KEY"] = SigningKey
  /\ Strip(cfg.ws_auth_token_issuer) \in {"", tk.iss}
  /\ Strip(cfg.ws_auth_token_audience) \in {"", tk.aud}

\* Until a token expires on the clock of the host that minted it, the server it is
\* meant for accepts it if the clocks differ by at most the leeway.
PunctualTokenAccepted ==
  Signed /\ skew \in (-Leeway)..Leeway =>
    \A tk \in minted : MeantForServer(tk) /\ now + skew < tk.exp => Verdict(tk) = "accepted"

\* No token outlives its time to live, counted on the server's clock from the moment
\* it was minted, by more than the leeway and what the minting clock is ahead.
LateTokenRefused ==
  Signed => \A tk \in minted, args \in MintArgs :
    tk.exp - tk.iat = args.ttl /\ now - (tk.iat - skew) >= args.ttl + Leeway + skew
      => Verdict(tk) # "accepted"

\* With signed tokens, what is spent under an identity other than a connection's own
\* anonymous one was spent by a holder of a token for it: neither a client that calls
\* itself so in its hello, nor one whose token was refused, spends another's budget.
OnlyHoldersSpend ==
  Signed => \A c \in Conns : \A i \in Identities \ {Anonymous(c)} :
    spent[<<c, i>>] > 0 => \E tk \in minted : tk.key = SigningKey /\ i = Holder(tk)
=============================================================================
