---------------------------- MODULE MCBuildPipeline ----------------------------
(***************************************************************************)
(* A small instance of BuildPipeline: one release file.                    *)
(***************************************************************************)
EXTENDS BuildPipeline

MCReleaseFiles == << "leaf" >>
=============================================================================
