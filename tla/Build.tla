-------------------------------- MODULE Build --------------------------------
(***************************************************************************)
(* vitro build: it downloads the media an image is built from, and then    *)
(* the image's kind decides which of the two builds it is                  *)
(* (commands/build.rs:204).  The three share no file: a behaviour is of    *)
(* one of them.                                                            *)
(***************************************************************************)
EXTENDS LumeBuild, QemuBuild, MediaFetch

ASSUME BuildAssumption

VARIABLE scene   \* the build, or the download, that a behaviour is of

everything == <<scene, vars, state, media>>

\* Where a part is not the one the behaviour is of, one of its initial states will do
BuildInit ==
  /\ scene \in {"lume", "qemu", "media"}
  /\ Init /\ (scene # "lume" => vm["golden"] = Absent)
  /\ QemuInit
  /\ FetchInit
  /\ scene # "media" =>
       out = Nothing /\ served = Wanted /\ \A i \in Inodes : Right(i)

BuildNext ==
  \/ scene = "lume" /\ Next /\ UNCHANGED <<scene, state, media>>
  \/ scene = "qemu" /\ QemuNext /\ UNCHANGED <<scene, vars, media>>
  \/ scene = "media" /\ FetchNext /\ UNCHANGED <<scene, vars, state>>

BuildSpec == BuildInit /\ [][BuildNext]_everything

\* A download is carried on (FairFetchSpec); of the two builds nothing needs to be
FairBuildSpec == BuildSpec /\ \A f \in Fetches : WF_media(FetchStep(f))
=============================================================================
