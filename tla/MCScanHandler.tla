------------------------------ MODULE MCScanHandler ------------------------------
(* Instances of ScanHandler for TLC. *)
EXTENDS ScanHandler

\* A registry of docs/CONFIGURATION.md, and one whose name is its host.
Hub == [name |-> "hub", type |-> "dockerhub", auth |-> "hmac", secret |-> "secret",
        scanner |-> Unset, timeout |-> Unset]
ByHost(type) == [Hub EXCEPT !.name = "docker.io", !.scanner = type]

Absent == [present |-> FALSE, url |-> Unset, project |-> Unset, interval |-> Unset]
ByAPI == [present |-> TRUE, url |-> "sysdig", project |-> "project", interval |-> Unset]

\* The defaults, but for the token.
CLIFile == [registries |-> <<Hub>>, scanner |-> Unset, token |-> "secret", timeout |-> Unset,
            rs |-> Absent, server |-> Unset, env |-> "secret"]
APIFile == [CLIFile EXCEPT !.scanner = "registry", !.rs = ByAPI]

\* Every field in turn has its values, good and bad, for each type of scanner.
Tokens == {[f EXCEPT !.token = t, !.env = e] :
              f \in {CLIFile, APIFile}, t \in {Unset, EnvRef, FileRef}, e \in {Unset, "secret"}}
Overrides ==
    LET types == ScannerTypes \cup {Unset, "podman"}
    IN {[f EXCEPT !.registries = rs] :
           f \in {CLIFile, APIFile, [CLIFile EXCEPT !.rs = [ByAPI EXCEPT !.url = "sysdig"]]},
           rs \in {<<ByHost(t), Hub>> : t \in types}
                    \cup {<<ByHost(Unset), [Hub EXCEPT !.scanner = t]>> : t \in types}}
Timeouts == {[f EXCEPT !.timeout = d, !.registries = <<[Hub EXCEPT !.timeout = o]>>] :
                f \in {CLIFile, APIFile}, d \in Durations, o \in Durations \cup {Unset}}
Sections == {[APIFile EXCEPT !.rs = [ByAPI EXCEPT !.url = u, !.project = p, !.interval = i]] :
                u \in {Unset, "sysdig"}, p \in {Unset, "project"}, i \in Durations \cup {Unset}}
Wrong == {[APIFile EXCEPT !.rs = Absent], [CLIFile EXCEPT !.rs = ByAPI]}
         \cup {[CLIFile EXCEPT !.registries = rs] :
             rs \in {<<>>, <<Hub, Hub>>, <<[Hub EXCEPT !.auth = "basic"]>>,
                     <<[Hub EXCEPT !.type = "quay"]>>, <<[Hub EXCEPT !.secret = FileRef]>>}}
         \cup {[CLIFile EXCEPT !.scanner = "podman"], [CLIFile EXCEPT !.server = "unparsable"]}

MCFiles == {CLIFile, APIFile} \cup Tokens \cup Overrides \cup Timeouts \cup Sections \cup Wrong

\* A request that names its registry as the configuration does, and one as a parser does.
MCRequests == {[registry |-> "docker.io", name |-> n] : n \in {"hub", "dockerhub"}}

MCExitCodes == {0, 9, 10}
AllConfigs == [present : BOOLEAN, interval : Durations, timeout : Durations]
================================================================================
