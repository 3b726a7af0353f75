------------------------------ MODULE WebhookIntake ------------------------------
(***************************************************************************)
(* The way of a webhook to scan requests: the middleware of pkg/auth tries the  *)
(* registries of the configuration one after the other, a parser of            *)
(* pkg/webhook/parsers makes requests of the payload, and the backends and     *)
(* pkg/scanner/credentials.go look up what each request is scanned with.       *)
(*                                                                         *)
(* handleWebhook does not call these parts yet; its comment (server.go:101)    *)
(* and the specification of the webhook receiver put them together so.        *)
(*                                                                         *)
(* A registry has, besides the fields of Config, url, a text of tokens, and    *)
(* user and password.  A signature or a bearer token is the secret it was made *)
(* with; malformed ones are Malformed.  The body is a stream that can be read  *)
(* once; reading it fails if it breaks off or is too large.                    *)
(***************************************************************************)
EXTENDS Config, ImageReference

CONSTANTS Configurations,    \* the configurations that were loaded
          Webhooks           \* the requests: signature, bearer, whole, json, origin and payload

Malformed == "malformed"

\* The fields that json.Unmarshal fills in, of a payload of each type.
Decoded(p) ==
    /\ p.kind = "dockerhub" => {p.repository, p.tag} \subseteq Texts
    /\ p.kind = "harbor" =>
          /\ p.repository \in Texts
          /\ Len(p.resources) \in Nat /\ DOMAIN p.resources = 1 .. Len(p.resources)
          /\ \A i \in DOMAIN p.resources :
                {p.resources[i].tag, p.resources[i].digest} \subseteq Texts
    /\ p.kind = "gitlab" => {p.project, p.ref, p.after} \subseteq Texts

ASSUME IntakeAssumption ==
    /\ \A c \in Configurations :
          /\ Validate(c)
          /\ Len(c.registries) \in Nat /\ DOMAIN c.registries = 1 .. Len(c.registries)
          /\ \A i \in DOMAIN c.registries : c.registries[i].url \in Texts
    /\ \A w \in Webhooks : w.whole \in BOOLEAN /\ Decoded(w.payload)
    /\ {"https://", "http://", "harbor", "local", "registry", "gitlab", "com", "refs/", "tags/"}
          \subseteq Tokens

VARIABLES
    cfg,              \* the configuration
    webhook,          \* the HTTP request
    stage,            \* where it is
    index,            \* the registry the middleware tries next
    authenticated,    \* what the middleware knows so far
    body,             \* the body of the request: unread, restored, failed or drained
    parser,           \* the parser that was picked
    requests          \* what it returned

intakeVars == <<cfg, webhook, stage, index, authenticated, body, parser, requests>>

NoParser == [type |-> Unset, url |-> <<>>]

IntakeInit ==
    /\ cfg \in Configurations /\ webhook \in Webhooks
    /\ stage = "authenticating" /\ index = 1 /\ authenticated = FALSE
    /\ body = "unread"
    /\ parser = NoParser /\ requests = <<>>

--------------------------------------------------------------------------------
(* pkg/auth *)

Signed == webhook.signature \notin {Unset, Malformed}

\* io.ReadAll(r.Body) succeeds; after an error it fails again.
Readable == body = "restored" \/ (body = "unread" /\ webhook.whole)

VerifyHMAC(r) == Signed /\ Readable /\ webhook.signature = r.secret
VerifyBearerToken(r) == webhook.bearer = r.secret

Verifies(r) ==
    \/ r.auth = "hmac" /\ VerifyHMAC(r)
    \/ r.auth = "bearer" /\ VerifyBearerToken(r)

\* Mutant of BodyAfter: what was read is not put back.
BodyDrained(r) ==
    IF r.auth # "hmac" \/ ~Signed THEN body ELSE IF Readable THEN "drained" ELSE "failed"

\* VerifyHMAC reads the body, once there is a signature, and puts back what it read.
BodyAfter(r) ==
    IF r.auth # "hmac" \/ ~Signed THEN body ELSE IF Readable THEN "restored" ELSE "failed"

\* Mutant of TryRegistry: the last registry decides.
TryRegistryLast ==
    /\ stage = "authenticating" /\ index <= Len(cfg.registries)
    /\ LET r == cfg.registries[index]
       IN /\ authenticated' = (r.auth = "none" \/ Verifies(r))
          /\ body' = BodyAfter(r)
    /\ index' = index + 1
    /\ UNCHANGED <<cfg, webhook, stage, parser, requests>>

\* One round of the loop of Middleware: it goes on past "none" and stops at the first
\* registry whose secret fits.
TryRegistry ==
    /\ stage = "authenticating" /\ index <= Len(cfg.registries)
    /\ LET r == cfg.registries[index]
       IN /\ authenticated' = (authenticated \/ r.auth = "none" \/ Verifies(r))
          /\ index' = IF Verifies(r) THEN Len(cfg.registries) + 1 ELSE index + 1
          /\ body' = BodyAfter(r)
    /\ UNCHANGED <<cfg, webhook, stage, parser, requests>>

\* 401, or the next handler.
Decide ==
    /\ stage = "authenticating" /\ index > Len(cfg.registries)
    /\ stage' = IF authenticated THEN "accepted" ELSE "rejected"
    /\ UNCHANGED <<cfg, webhook, index, authenticated, body, parser, requests>>

--------------------------------------------------------------------------------
(* pkg/webhook/parsers *)

ParserOf(r) == [type |-> r.type, url |-> r.url]

\* GetParser by the name of the registry, or GetParserByType, which takes any registry
\* of that type; then Validate of the parser.
PickParser ==
    /\ stage = "accepted"
    /\ \E by \in {"name", "type"} :
           LET found == {i \in DOMAIN cfg.registries : cfg.registries[i][by] = webhook.origin[by]}
           IN IF found = {} THEN stage' = "refused" /\ UNCHANGED parser
              ELSE /\ \E i \in found : parser' = ParserOf(cfg.registries[i])
                   /\ stage' = IF webhook.json THEN "parsing" ELSE "refused"
    /\ UNCHANGED <<cfg, webhook, index, authenticated, body, requests>>

\* strings.TrimPrefix
TrimPrefix(text, prefix) ==
    IF IsPrefix(prefix, text) THEN SubSeq(text, Len(prefix) + 1, Len(text)) ELSE text

Host(url, default) ==
    TrimPrefix(TrimPrefix(IF url = <<>> THEN default ELSE url, <<"https://">>), <<"http://">>)

Reference(host, repository, tag) == host \o <<"/">> \o repository \o <<":">> \o tag

Request(ref, type, host, repository, tag, digest) ==
    [ref |-> ref, name |-> type, registry |-> host, repository |-> repository,
     tag |-> tag, digest |-> digest]

\* DockerHubParser.Parse; no request stands for an error.
ParseDockerHub(p) ==
    IF p.repository = <<>> \/ p.tag = <<>> THEN <<>>
    ELSE <<Request(p.repository \o <<":">> \o p.tag, "dockerhub", DockerIO, p.repository, p.tag, <<>>)>>

\* HarborParser.Parse: one request for each resource with a tag, in their order.
Tagged(p) == {i \in DOMAIN p.resources : p.resources[i].tag # <<>>}
Nth(k, positions) == CHOOSE i \in positions : Cardinality({j \in positions : j <= i}) = k

ParseHarbor(p, url) ==
    LET host == Host(url, <<"harbor", ".", "local">>)
        of(resource) == Request(Reference(host, p.repository, resource.tag), "harbor", host,
                                p.repository, resource.tag, resource.digest)
    IN IF p.event \notin {"PUSH_ARTIFACT", "pushImage"} \/ p.repository = <<>> THEN <<>>
       ELSE [k \in 1 .. Cardinality(Tagged(p)) |-> of(p.resources[Nth(k, Tagged(p))])]

\* GitLabParser.Parse: what is no tag push is tagged with the short commit.
GitTag(p) == TrimPrefix(p.ref, <<"refs/", "tags/">>)
NeedsCommit(p) == GitTag(p) = <<>> \/ Head(GitTag(p)) = "refs/"
ParseGitLab(p, url) ==
    LET host == Host(url, <<"registry", ".", "gitlab", ".", "com">>)
        tag == IF NeedsCommit(p) THEN p.after ELSE GitTag(p)
    IN IF p.event # "push" \/ p.project = <<>> THEN <<>>
       ELSE <<Request(Reference(host, p.project, tag), "gitlab", host, p.project, tag, <<>>)>>

\* payload.After[:12]; an empty after stands for all that are shorter.
SliceOutOfRange(p) ==
    p.event = "push" /\ p.project # <<>> /\ NeedsCommit(p) /\ p.after = <<>>

\* What the parser makes of the payload; one that is no JSON, or that another type of
\* registry sends, does not have the fields it requires.
Parsed(p) ==
    IF p.kind # parser.type THEN <<>>
    ELSE CASE p.kind = "dockerhub" -> ParseDockerHub(p)
           [] p.kind = "harbor" -> ParseHarbor(p, parser.url)
           [] p.kind = "gitlab" -> ParseGitLab(p, parser.url)

Panics(p) == parser.type = "gitlab" /\ p.kind = "gitlab" /\ SliceOutOfRange(p)

\* Parse of the picked parser, which reads the body first.
Parse ==
    /\ stage = "parsing"
    /\ LET p == webhook.payload
           returned == IF Readable /\ ~Panics(p) THEN Parsed(p) ELSE <<>>
       IN /\ requests' = returned
          /\ stage' = CASE Readable /\ Panics(p) -> "panicked"
                        [] returned # <<>> -> "parsed"
                        [] OTHER -> "refused"
    /\ body' = IF Readable THEN "drained" ELSE "failed"
    /\ UNCHANGED <<cfg, webhook, index, authenticated, parser>>

IntakeNext == TryRegistry \/ Decide \/ PickParser \/ Parse

IntakeSpec == IntakeInit /\ [][IntakeNext]_intakeVars

\* CLIScanner.FormatImageRef: a digest takes the place of the tag.
FormatImageRef(q) ==
    IF q.digest = <<>> \/ Contains(q.ref, "@") THEN q.ref
    ELSE Cut(q.ref, ":").left \o <<"@">> \o q.digest

--------------------------------------------------------------------------------
(* Credentials of a request: the three places that look them up *)

NoCredentials == [user |-> Unset, password |-> Unset]

\* The user and password of the first of those registries.
CredentialsOf(found) ==
    LET r == cfg.registries[Min(found)]
    IN IF found = {} THEN NoCredentials ELSE [user |-> r.user, password |-> r.password]

\* CredentialProvider.GetRegistryCredentials: both or none; an unknown name is an error.
GetRegistryCredentials(name) ==
    LET first == CredentialsOf(Named(cfg, name))
    IN IF Unset \in {first.user, first.password} THEN NoCredentials ELSE first

\* CLIScanner.buildScanArgs: each for itself.
BuildScanArgs(name) == CredentialsOf(Named(cfg, name))

WithUser == {i \in DOMAIN cfg.registries : cfg.registries[i].user # Unset}

\* Mutant of BuildScanRequest: the name of the registry is not compared.
BuildScanRequestAny(name) == CredentialsOf(WithUser)

\* RegistryScanner.buildScanRequest: both if there is a user.
BuildScanRequest(name) == CredentialsOf(Named(cfg, name) \cap WithUser)

--------------------------------------------------------------------------------
(* Correctness *)

IntakeTypeOK ==
    /\ cfg \in Configurations /\ webhook \in Webhooks
    /\ stage \in {"authenticating", "rejected", "accepted", "refused", "parsing", "parsed", "panicked"}
    /\ index \in 1 .. (Len(cfg.registries) + 1)
    /\ authenticated \in BOOLEAN
    /\ body \in {"unread", "restored", "failed", "drained"}
    /\ requests # <<>> <=> stage = "parsed"

\* However many registries have tried their secret on the body, the parser can read it as
\* it was sent, or learns that it could not be read.
BodyReachesParser ==
    stage \in {"accepted", "parsing"} => Readable = webhook.whole

\* What every step of the intake keeps: the types, and that the body is there to parse.
IntakeInv == IntakeTypeOK /\ BodyReachesParser

\* The request carries the proof that AuthenticateRegistry asks for; nobody has read it yet.
Proves(r) ==
    \/ r.auth = "bearer" /\ webhook.bearer = r.secret
    \/ r.auth = "hmac" /\ Signed /\ webhook.whole /\ webhook.signature = r.secret

ProvenToSome == \E i \in DOMAIN cfg.registries : Proves(cfg.registries[i])

\* The decision of the middleware does not depend on the order of the registries, nor on
\* what was tried before: a request that carries the proof of any one registry passes, and
\* where every registry asks for a proof no other request does.
DecisionIsOrderFree ==
    stage # "authenticating" =>
        /\ ProvenToSome => stage # "rejected"
        /\ ~ProvenToSome /\ (\A i \in DOMAIN cfg.registries : cfg.registries[i].auth # "none") =>
               stage = "rejected"

\* A registry with a domain, without a port and a path, and names and tags as registries
\* allow them.  On Docker Hub a name does not begin with a domain.
WellNamed(q) ==
    /\ Contains(q.registry, ".") /\ \A mark \in {"/", ":", "@"} : ~Contains(q.registry, mark)
    /\ \A mark \in {":", "@"} : ~Contains(q.repository, mark)
    /\ ~Contains(q.tag, "@")
    /\ q.registry = DockerIO =>
          LET path == Cut(q.repository, "/") IN ~(path.found /\ Contains(path.left, "."))

\* The reference a parser builds stands for the registry, the repository and the tag it
\* puts next to it, and so do its normal form and the form by digest: what the scanner
\* pulls is what the request says.
ReferenceAgrees ==
    \A i \in DOMAIN requests :
        LET q == requests[i]
            normal == NormalizeImageReference(q.registry, q.repository, q.tag, q.digest)
            parts == ParseImageReference(q.ref)
            byDigest == ParseImageReference(FormatImageRef(q))
        IN WellNamed(q) =>
               /\ parts = [registry |-> q.registry, repository |-> q.repository,
                           tag |-> q.tag, digest |-> <<>>]
               /\ ParseImageReference(normal) = [parts EXCEPT !.digest =
                      IF q.digest = <<>> THEN <<>> ELSE WithPrefix(q.digest)]
               /\ byDigest = [parts EXCEPT !.tag = IF q.digest = <<>> THEN @ ELSE Latest,
                                           !.digest = q.digest]
               /\ ValidateImageReference(normal)

\* Either backend scans a request with the same credentials, the ones the provider finds.
\* Of a registry with half of them the provider finds none, and RegistryScanner uses what
\* CLIScanner uses or nothing.
HasHalf(found) == (found.user = Unset) # (found.password = Unset)

CredentialsAgree ==
    \A i \in DOMAIN requests :
        LET name == requests[i].name
            cli == BuildScanArgs(name)
        IN /\ ~HasHalf(cli) => BuildScanRequest(name) = cli /\ GetRegistryCredentials(name) = cli
           /\ HasHalf(cli) => /\ GetRegistryCredentials(name) = NoCredentials
                              /\ BuildScanRequest(name) \in {cli, NoCredentials}

\* credentials.go:98, "incomplete credentials (both username and password required)": no
\* request is scanned with half of them.
CredentialsAreComplete ==
    \A i \in DOMAIN requests :
        ~HasHalf(BuildScanArgs(requests[i].name)) /\ ~HasHalf(BuildScanRequest(requests[i].name))

\* openspec webhook-receiver, "Invalid HMAC signature" and "Missing authentication": once
\* some registry has a secret, a request that carries no registry's proof is answered with 401.
UnprovenIsRejected ==
    /\ \E i \in DOMAIN cfg.registries : cfg.registries[i].auth # "none"
    /\ stage \notin {"authenticating", "rejected"}
    => ProvenToSome

\* internal/models/scan.go: RegistryName is the "Registry name from configuration".
NameIsConfigured ==
    \A i \in DOMAIN requests :
        \E j \in DOMAIN cfg.registries : cfg.registries[j].name = requests[i].name

\* openspec webhook-receiver: a payload with missing fields is answered with 400.
MissingFieldsAreRefused == stage # "panicked"

\* normalize_test.go, "registry with port": a port belongs to the registry.
PortIsPartOfRegistry ==
    \A i \in DOMAIN requests :
        Contains(requests[i].registry, ":") =>
            ParseImageReference(requests[i].ref).registry = requests[i].registry

\* The webhook of a registry becomes requests for that registry.
RequestsAreOfOrigin ==
    \A i \in DOMAIN requests :
        parser.url # <<>> => requests[i].registry = Host(webhook.origin.url, DockerIO)
================================================================================
