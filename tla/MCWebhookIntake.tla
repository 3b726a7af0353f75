----------------------------- MODULE MCWebhookIntake -----------------------------
(* Instances of WebhookIntake for TLC. *)
EXTENDS WebhookIntake

MCTokens == STRING

S1 == "s1"
S2 == "s2"

Auths == {[auth |-> "none", secret |-> Unset], [auth |-> "bearer", secret |-> S1],
          [auth |-> "hmac", secret |-> S1], [auth |-> "hmac", secret |-> S2]}

\* Registries of each type: two Harbors, one of them named as its type and with a port.
Plain(name, type, url) ==
    [name |-> name, type |-> type, url |-> url, auth |-> "none", secret |-> Unset,
     user |-> Unset, password |-> Unset, scanner |-> Unset, timeout |-> Unset]
Hub == Plain("hub", "dockerhub", <<>>)
Harbor == Plain("registry", "harbor", <<"https://", "harbor", ".", "com">>)
WithPort == Plain("harbor", "harbor", <<"http://", "localhost", ":", "5000">>)
GitLab == Plain("gitlab", "gitlab", <<>>)

Auth(r, a) == [r EXCEPT !.auth = a.auth, !.secret = a.secret]
Credentials(r, u, p) == [r EXCEPT !.user = u, !.password = p]

File(registries) ==
    [registries |-> registries, scanner |-> "cli", token |-> "token", timeout |-> "valid",
     rs |-> [present |-> FALSE], server |-> "valid", env |-> Unset]

\* Three registries with every combination of authentication, and with credentials for the
\* registry a request names, for another one, or for neither.
Secured == {File(<<Auth(Harbor, a), Auth(GitLab, b), Auth(WithPort, c)>>) :
               a \in Auths, b \in Auths, c \in Auths}
Credited == {File(<<Credentials(Harbor, u, p), Credentials(GitLab, v, q), WithPort, Hub>>) :
                u \in {Unset, "u"}, p \in {Unset, "p"}, v \in {Unset, "v"}, q \in {Unset, "q"}}

MCConfigurations == Secured \cup Credited

Origins == {[name |-> r.name, type |-> r.type, url |-> r.url] :
               r \in {Hub, Harbor, WithPort, GitLab}}

Sent(signature, bearer, origin, payload) ==
    [signature |-> signature, bearer |-> bearer, whole |-> TRUE, json |-> TRUE,
     origin |-> origin, payload |-> payload]

Payload(origin) ==
    CASE origin.type = "dockerhub" ->
             {[kind |-> "dockerhub", repository |-> r, tag |-> t] :
                 r \in {<<>>, <<"nginx">>, <<"library", "/", "nginx">>}, t \in {<<>>, <<"v1">>}}
      [] origin.type = "harbor" ->
             {[kind |-> "harbor", event |-> e, repository |-> r, resources |-> s] :
                 e \in {"PUSH_ARTIFACT", "DELETE_ARTIFACT"}, r \in {<<>>, <<"library", "/", "app">>},
                 s \in {<<>>, <<[tag |-> <<>>, digest |-> <<"d1">>],
                                [tag |-> <<"v1">>, digest |-> <<"sha256", ":", "d2">>],
                                [tag |-> <<"v2">>, digest |-> <<>>]>>,
                        <<[tag |-> <<>>, digest |-> <<"d1">>]>>}}
      [] origin.type = "gitlab" ->
             {[kind |-> "gitlab", event |-> e, project |-> r, ref |-> f, after |-> a] :
                 e \in {"push", "note"}, r \in {<<>>, <<"group", "/", "project">>},
                 f \in {<<>>, <<"refs/", "tags/", "v1">>, <<"refs/", "heads/", "main">>, <<"v1">>},
                 a \in {<<>>, <<"0123456789ab">>}}

\* Every payload in a request that passes, and every way to ask with one payload.
Payloads == UNION {{Sent(S1, S1, o, p) : p \in Payload(o)} : o \in Origins}
Push == [kind |-> "harbor", event |-> "PUSH_ARTIFACT", repository |-> <<"app">>,
         resources |-> <<[tag |-> <<"v1">>, digest |-> <<"d1">>]>>]
Asked == {[Sent(s, b, o, p) EXCEPT !.whole = w, !.json = j] :
             s \in {Unset, Malformed, S1, S2}, b \in {Unset, S1, S2}, w \in BOOLEAN, j \in BOOLEAN,
             o \in {[name |-> Harbor.name, type |-> Harbor.type, url |-> Harbor.url]},
             p \in {Push, [kind |-> "garbage"]}}

MCWebhooks == Payloads \cup Asked
================================================================================
