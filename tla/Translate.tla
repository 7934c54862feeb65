----------------------------- MODULE Translate -----------------------------
(***************************************************************************)
(* From a finished subprocess to a tools/call result (translate.go,        *)
(* fileref_rewrite.go, resultblocks.go).  Pure operators.                  *)
(*                                                                         *)
(* A line of stdout is [kind, file, escaped].  Its kind says how the host  *)
(* path of `file` occurs in it, if one does: as a whole value of a record  *)
(* ("record"), inside a longer string of a record ("prose"), in a single-  *)
(* key @-line ("meta") or in a line that is not JSON ("text"); `escaped`   *)
(* says that JSON spells the path differently from the path itself (a      *)
(* backslash, or & < > as some encoders write them).  A line of a result   *)
(* is [kind, file, form]: the form is "ref" where a FileRef replaced the   *)
(* path, "host" where the line shows what the command printed.             *)
(*                                                                         *)
(* `inRoots` is the set of files below the caller's roots.  Blank lines    *)
(* and the values of numbers are left out.                                 *)
(***************************************************************************)
EXTENDS Integers, Sequences

CONSTANT NoFile  \* the line holds no path

Lines(F) == [kind : {"record", "prose", "meta", "text"}, file : F \cup {NoFile},
             escaped : BOOLEAN]

\* What a run leaves behind; stderr holds error objects and notices.
RunResults(F) == [exit : {-1, 0, 1}, stdout : Seq(Lines(F)),
                  stderr : Seq({"error1", "error2", "notice"})]

IsRecord(l) == l.kind \in {"record", "prose"}
IsMeta(l) == l.kind = "meta"
Verbatim(l) == [kind |-> l.kind, file |-> l.file, form |-> "host"]

\* Mutant of StdoutHasRootPath: only the first line is searched.
StdoutHasRootPathFirstLine(stdout, inRoots) ==
  stdout # <<>> /\ stdout[1].file \in inRoots /\ ~ stdout[1].escaped

\* The gate searches the bytes of stdout, so it misses an escaped path.
StdoutHasRootPath(stdout, inRoots) ==
  \E i \in DOMAIN stdout : stdout[i].file \in inRoots /\ ~ stdout[i].escaped

\* Rewriting sees decoded strings, so an escaped path is rewritten as well.
RewriteFileRefs(l, inRoots) ==
  [kind |-> l.kind, file |-> l.file,
   form |-> IF l.kind = "record" /\ l.file \in inRoots THEN "ref" ELSE "host"]

\* A result holds the records in the order of their lines: here they keep their
\* line numbers.
RecordLines(s) == {i \in DOMAIN s : IsRecord(s[i])}
MetaLines(s) == {i \in DOMAIN s : IsMeta(s[i])}

ProcessStdout(stdout, inRoots, scrub) ==
  [records |-> [i \in RecordLines(stdout) |-> RewriteFileRefs(stdout[i], inRoots)],
   meta    |-> [i \in MetaLines(stdout) |-> Verbatim(stdout[i])],
   text    |-> [i \in DOMAIN stdout |->
                  IF scrub /\ IsRecord(stdout[i]) THEN RewriteFileRefs(stdout[i], inRoots)
                  ELSE Verbatim(stdout[i])]]

\* The last error object on stderr, if there is one.
ParseError(stderr) ==
  LET errors == {i \in DOMAIN stderr : stderr[i] # "notice"}
  IN  IF errors = {} THEN "none"
      ELSE stderr[CHOOSE i \in errors : \A j \in errors : j <= i]

\* A failed run keeps its records and shows the error, or all of stderr, as text.
ErrorText(error, stderr) == IF error = "none" THEN stderr ELSE <<error>>

Translated(r, inRoots) ==
  LET out   == ProcessStdout(r.stdout, inRoots,
                             r.exit = 0 /\ StdoutHasRootPath(r.stdout, inRoots))
      error == ParseError(r.stderr)
  IN  IF r.exit # 0
      THEN [isError |-> TRUE, records |-> out.records, meta |-> out.meta,
            error |-> error, text |-> <<>>, extra |-> ErrorText(error, r.stderr)]
      ELSE [isError |-> FALSE, records |-> out.records, meta |-> out.meta,
            error |-> "none", text |-> out.text, extra |-> r.stderr]
=============================================================================
