--------------------------------- MODULE Config ---------------------------------
(***************************************************************************)
(* The configuration as the program reads it: pkg/config/loader.go turns the   *)
(* file into a configuration or refuses it, pkg/scanner/factory.go picks and   *)
(* validates the backend of a scan, and both backends look their timeout up.   *)
(*                                                                         *)
(* A configuration is a record: registries, a sequence of records; scanner,    *)
(* token and timeout of the section "scanner"; rs, the section                *)
(* "registry_scanner" with its field present; server, a duration that stands   *)
(* for the three of the section "server"; env, the value of the environment    *)
(* variable that EnvRef names.  A field that is not set is Unset.             *)
(***************************************************************************)
EXTENDS Naturals, Sequences, FiniteSetsExt

Unset == ""
EnvRef == "${TOKEN}"         \* a placeholder for an environment variable
FileRef == "${FILE:token}"   \* a placeholder for a mounted secret

ScannerTypes == {"cli", "registry"}
RegistryTypes == {"dockerhub", "harbor", "gitlab"}
Unparsable == "unparsable"   \* stands for the durations that cannot be parsed

Or(value, default) == IF value = Unset THEN default ELSE value

\* os.ExpandEnv over the text of the file: FileRef names no environment variable, so
\* nothing is put in its place.
Expand(file) ==
    LET value(text) == CASE text = EnvRef -> file.env
                         [] text = FileRef -> Unset
                         [] OTHER -> text
    IN [file EXCEPT !.token = value(@),
                    !.registries = [i \in DOMAIN @ |-> [@[i] EXCEPT !.secret = value(@)]]]

\* applyDefaults; the defaults of the registry scanner only if it is the global type.
ApplyDefaults(c) ==
    LET rs == IF c.scanner = "registry" /\ c.rs.present
              THEN [c.rs EXCEPT !.url = Or(@, "sysdig"), !.interval = Or(@, "valid")]
              ELSE c.rs
    IN [c EXCEPT !.scanner = Or(@, "cli"), !.timeout = Or(@, "valid"),
                 !.server = Or(@, "valid"), !.rs = rs]

ValidAuth(r) ==
    /\ r.auth \in {"hmac", "bearer", "none"}
    /\ r.auth # "none" => r.secret # Unset

\* Validate; it looks neither at the scanner override of a registry nor at its timeout.
Validate(c) ==
    /\ c.registries # <<>>
    /\ \A i \in DOMAIN c.registries :
           LET r == c.registries[i]
           IN /\ r.name # Unset /\ r.type \in RegistryTypes /\ ValidAuth(r)
              /\ \A j \in 1 .. (i - 1) : c.registries[j].name # r.name
    /\ c.token # Unset
    /\ c.scanner \in ScannerTypes
    /\ c.scanner = "registry" =>
           c.rs.present /\ c.rs.project # Unset /\ c.rs.interval # Unparsable
    /\ c.timeout # Unparsable /\ c.server # Unparsable

\* What Load returns if it returns no error.
Loaded(file) == ApplyDefaults(Expand(file))

--------------------------------------------------------------------------------
(* The factory and the lookups of the backends *)

\* Where the registries of that name are.
Named(c, name) == {i \in DOMAIN c.registries : c.registries[i].name = name}

\* The first registry of that name decides, then the global type, then "cli".
DetermineScannerType(c, name) ==
    LET named == Named(c, name)
        override == IF named = {} THEN Unset ELSE c.registries[Min(named)].scanner
    IN Or(override, Or(c.scanner, "cli"))

\* ValidateConfig of the backend of that type; cliFound is exec.LookPath's answer.
BackendValid(c, type, cliFound) ==
    \/ type = "cli" /\ cliFound
    \/ /\ type = "registry"
       /\ c.rs.present /\ c.rs.url # Unset /\ c.rs.project # Unset /\ c.token # Unset

\* NewScannerBackend: the type of the backend, or "none" with an error.
NewScannerBackend(c, name, cliFound) ==
    LET type == DetermineScannerType(c, name)
    IN IF BackendValid(c, type, cliFound) THEN type ELSE "none"

\* getTimeout of both backends: the first registry of the request's RegistryName that
\* has a timeout, else the default.
GetTimeout(c, name) ==
    LET own == {i \in Named(c, name) : c.registries[i].timeout # Unset}
    IN IF own = {} THEN c.timeout ELSE c.registries[Min(own)].timeout
================================================================================
