----------------------------- MODULE ImageReference -----------------------------
(***************************************************************************)
(* References of images, pkg/webhook/parsers/normalize.go.  A piece of text is *)
(* a sequence of tokens: the separators "/", ":", "@" and "." and the words    *)
(* between them, so that the text of an image is the text of its parts joined. *)
(***************************************************************************)
EXTENDS Naturals, Sequences, SequencesExt

CONSTANT Tokens    \* the pieces texts are made of

ASSUME TokensAssumption ==
    {"/", ":", "@", ".", "docker", "io", "latest", "sha256"} \subseteq Tokens

Texts == Seq(Tokens)

DockerIO == <<"docker", ".", "io">>
Latest == <<"latest">>
SHA256 == <<"sha256", ":">>

\* strings.SplitN(text, separator, 2): what is before and after its first occurrence.
Cut(text, separator) ==
    LET at == SelectInSeq(text, LAMBDA token : token = separator)
    IN IF at = 0 THEN [found |-> FALSE, left |-> text, right |-> <<>>]
       ELSE [found |-> TRUE, left |-> SubSeq(text, 1, at - 1),
             right |-> SubSeq(text, at + 1, Len(text))]

WithPrefix(digest) == IF IsPrefix(SHA256, digest) THEN digest ELSE SHA256 \o digest

NormalizeImageReference(registry, repository, tag, digest) ==
    (IF registry \in {<<>>, DockerIO} THEN repository ELSE registry \o <<"/">> \o repository)
    \o <<":">> \o (IF tag = <<>> THEN Latest ELSE tag)
    \o (IF digest = <<>> THEN <<>> ELSE <<"@">> \o WithPrefix(digest))

\* Mutant of ParseImageReference: every first element of a path is taken for a registry.
ParseAnyRegistry(ref) ==
    LET digest == Cut(ref, "@")
        tag == Cut(digest.left, ":")
        path == Cut(tag.left, "/")
    IN [registry |-> IF path.found THEN path.left ELSE DockerIO,
        repository |-> IF path.found THEN path.right ELSE tag.left,
        tag |-> IF tag.found THEN tag.right ELSE Latest,
        digest |-> digest.right]

\* The first ":" ends the repository; the first element of a path is a registry if there
\* is a "." in it (no ":" is left in it by then).
ParseImageReference(ref) ==
    LET digest == Cut(ref, "@")
        tag == Cut(digest.left, ":")
        path == Cut(tag.left, "/")
        named == path.found /\ Contains(path.left, ".")
    IN [registry |-> IF named THEN path.left ELSE DockerIO,
        repository |-> IF named THEN path.right ELSE tag.left,
        tag |-> IF tag.found THEN tag.right ELSE Latest,
        digest |-> digest.right]

ValidateImageReference(ref) ==
    LET parts == ParseImageReference(ref)
    IN ref # <<>> /\ parts.repository # <<>> /\ parts.tag # <<>> /\ parts.registry # <<>>
================================================================================
