---------------------------- MODULE MCBundleBuild ----------------------------
(* Three builders of one bundle: BuildStream and Build for the same corpus *)
(* path, and a third call for a path written with surrounding blanks.  In  *)
(* MCBundleBuild.cfg that call is Build and the paths differ; in           *)
(* MCPaddedStream.cfg it is BuildStream, alone.                            *)
EXTENDS BundleBuild

CONSTANTS stream, eager, padded, bundle

MCPaths == {"corpus", "other", " other "}

MCIdOf == [b \in Builders |-> bundle]

MCPathOf == [b \in Builders |-> IF b = padded THEN " other " ELSE "corpus"]

MCMode == [b \in Builders |-> IF b = stream THEN "stream" ELSE "build"]

MCStreamMode == [b \in Builders |-> "stream"]

MCTrim == [p \in MCPaths |-> IF p = "corpus" THEN "corpus" ELSE "other"]

=============================================================================
