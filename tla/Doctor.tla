------------------------------- MODULE Doctor -------------------------------
(***************************************************************************)
(* What vitro doctor says of a configuration with one image or none        *)
(* (doctor.rs), beside what run and build then find: the configuration as  *)
(* it is read (config.rs), the tools (tools.rs), the firmware (qemu.rs),   *)
(* the golden image and the media to build one from (build.rs).            *)
(***************************************************************************)
EXTENDS Naturals, FiniteSets, FiniteSetsExt

CONSTANT MaxLacks  \* bound on what is missing at a time

DoctorAssumption == MaxLacks \in Nat

\* What a host can have.  It lacks the include line when vitro's ssh_config is written and
\* ~/.ssh/config does not include it
Tools == {"qemu", "qemu-img", "lume", "ssh", "scp"}
Things == Tools \cup
  {"a known platform", "a QEMU that starts", "the accelerator", "the key", "its public half",
   "the include line", "a state directory", "the firmware", "the golden file", "a build",
   "the lume VM", "the source", "virtio drivers"}

\* Installation media found in vitro's directory, by what their labels say
Isos == {"for this host", "for another", "no architecture"}

VARIABLES
  raw,       \* the image's section, or Empty
  lacks,     \* what the host does not have
  virt,      \* whether its machine has no BIOS
  supplied,  \* the Isos there are
  said,      \* doctor's level
  ran, built \* what became of run and of build, on the host as it is

doctorVars == <<raw, lacks, virt, supplied, said, ran, built>>

Has(things) == things \cap lacks = {}

-----------------------------------------------------------------------------
(* Configuration                                                           *)

Builds == {"cloud-image", "unattended-install", "lume-ipsw"}

\* A section as it is written, with what [defaults] sets
Sections ==
  [backend : {"qemu", "lume"}, guest : {"unset", "unix", "windows"},
   golden : {"unset", "name", "path"}, firmware : {"unset", "set"},
   user : {"unset", "set"},
   build : Builds \cup {"unset"}, source : {"unset", "latest", "url", "local"}]

\* A configuration without an image
Empty == [backend |-> "none", guest |-> "unset", golden |-> "unset", firmware |-> "unset",
          user |-> "unset", build |-> "unset", source |-> "unset"]

\* The guest that the build is of, or "unset"
Implied(s) ==
  IF s.backend = "lume" \/ s.build = "cloud-image" THEN "unix"
  ELSE IF s.build = "unattended-install" THEN "windows" ELSE "unset"

\* resolve_build
BuildFits(s) ==
  /\ s.backend = IF s.build = "lume-ipsw" THEN "lume" ELSE "qemu"
  /\ s.source = "latest" => s.build = "lume-ipsw"
  /\ s.source = "unset" => s.build = "unattended-install"

\* resolve: what is not so written is refused, by every command
Resolves(s) ==
  /\ s.backend = "lume" => s.golden = "name"
  /\ s.user # "unset"
  /\ s.build # "unset" => BuildFits(s)
  /\ s.guest # "unset" /\ Implied(s) # "unset" => s.guest = Implied(s)
  /\ s.backend = "qemu" /\ s.golden = "unset" => s.build # "unset"

\* What run starts from
Golden == IF raw.backend = "lume" THEN "the lume VM"
          ELSE IF raw.golden = "unset" THEN "a build" ELSE "the golden file"

NeedsFirmware == raw.firmware # "unset" \/ virt

-----------------------------------------------------------------------------
(* doctor                                                                  *)

\* Only what the configuration asks for; without an image that is QEMU
WantedTools == {"ssh", "scp"} \cup IF raw.backend = "lume" THEN {"lume"} ELSE {"qemu", "qemu-img"}

\* mutant: firmware that is not set is not missed
FirmwareIfSet ==
  IF raw.firmware # "unset" /\ ~Has({"the firmware"}) THEN "FAIL" ELSE "ok"

\* A path that leads to nothing, for either backend, or none where QEMU needs one
FirmwareLevel ==
  IF \/ raw.firmware # "unset" /\ ~Has({"the firmware"})
     \/ raw.firmware = "unset" /\ raw.backend = "qemu" /\ virt /\ Has({"a known platform"})
  THEN "FAIL" ELSE "ok"

\* media: a golden image that is missing is to be built
MediaLevel ==
  IF \/ raw.build = "unset"
     \/ raw.source = "local" /\ ~Has({"the source"})
     \/ raw.build = "unattended-install" /\ raw.source = "unset" /\ supplied = {}
  THEN "FAIL" ELSE "warn"

\* images: lume's VM is not looked for
ImageLevel ==
  IF raw = Empty THEN "warn"
  ELSE IF FirmwareLevel = "FAIL" THEN "FAIL"
  ELSE IF raw.backend = "lume" \/ Has({Golden}) THEN "ok" ELSE MediaLevel

\* accelerator, which asks QEMU itself
AcceleratorLevel ==
  IF raw.backend = "lume" \/ ~Has({"a known platform"}) THEN "ok"
  ELSE IF ~Has({"qemu", "a QEMU that starts"}) THEN "warn"
  ELSE IF ~Has({"the accelerator"}) THEN "FAIL" ELSE "ok"

\* host, binary, ssh_key, state_dir
Missed == ~Has({"a known platform", "the key", "a state directory"} \cup WantedTools)

\* run, worst: nothing fails for want of the include line
Worst ==
  IF Missed \/ "FAIL" \in {AcceleratorLevel, ImageLevel} THEN "FAIL"
  ELSE IF ~Has({"the include line"}) \/ "warn" \in {AcceleratorLevel, ImageLevel} THEN "warn"
  ELSE "ok"

Diagnose ==
  /\ said = "nothing" /\ said' = Worst
  /\ UNCHANGED <<raw, lacks, virt, supplied, ran, built>>

-----------------------------------------------------------------------------
(* run, build                                                              *)

FirmwareThere == IF raw.firmware = "unset" THEN ~virt ELSE Has({"the firmware"})

\* What QEMU starts with
QemuStarts ==
  /\ FirmwareThere
  /\ Has({"a known platform", "the accelerator", "the key", "qemu", "a QEMU that starts",
           "qemu-img", "ssh", "scp"})

RunStarts ==
  /\ raw # Empty
  /\ Has({Golden, "a state directory"})
  /\ IF raw.backend = "lume" THEN Has({"lume", "ssh", "the key"}) ELSE QemuStarts

Run ==
  /\ ran = "not yet" /\ ran' = IF RunStarts THEN "started" ELSE "failed"
  /\ UNCHANGED <<raw, lacks, virt, supplied, said, built>>

\* find_supplied_media: one that is not labelled for another architecture, and only one
SuppliedFits == Cardinality(supplied \ {"for another"}) = 1

\* resolve_media
MediaThere ==
  CASE raw.source = "local" -> Has({"the source"})
    [] raw.source = "unset" -> SuppliedFits
    [] OTHER                -> TRUE

\* build, build_lume: without a provision script lume's needs no tool but lume
BuildEnds ==
  /\ raw.build # "unset" /\ MediaThere /\ Has({"its public half"})
  /\ raw.build = "unattended-install" => Has({"virtio drivers"})
  /\ IF raw.backend = "lume" THEN Has({"lume"}) ELSE QemuStarts

\* Its image is a dated one, or the VM that lume's section names.  What doctor and run
\* would say is different from then on
Build ==
  /\ built = "not yet"
  /\ \/ BuildEnds /\ built' = "done" /\ said' = "nothing" /\ ran' = "not yet"
        /\ lacks' = lacks \ {IF raw.backend = "lume" THEN "the lume VM" ELSE "a build"}
     \/ ~BuildEnds /\ built' = "failed" /\ UNCHANGED <<said, ran, lacks>>
  /\ UNCHANGED <<raw, virt, supplied>>

\* The user mends something, and asks again
Mend ==
  /\ \E t \in lacks : lacks' = lacks \ {t}
  /\ said' = "nothing" /\ ran' = "not yet" /\ built' = "not yet"
  /\ UNCHANGED <<raw, virt, supplied>>

-----------------------------------------------------------------------------
Init ==
  /\ raw \in {Empty} \cup
       {s \in Sections : (s.build = "unset" => s.source = "unset") /\ Resolves(s)}
  /\ lacks \in UNION {kSubset(k, Things) : k \in 0 .. MaxLacks}
  /\ virt \in BOOLEAN
  /\ supplied \in IF raw.build = "unattended-install" /\ raw.source = "unset" THEN SUBSET Isos
                  ELSE {{}}
  /\ said = "nothing" /\ ran = "not yet" /\ built = "not yet"

Next == Diagnose \/ Run \/ Build \/ Mend

-----------------------------------------------------------------------------
\* "Every check here corresponds to something that makes `run` or `build` fail"
\* (doctor.rs:3), and the other way round: where doctor finds nothing wrong run starts
\* the guest, and where it finds something run or build fails.  Of a lume image that does
\* not hold for the VM to clone, which is not looked for, and for scp, the firmware and
\* the platform, which are and which lume has no use for.  A warning also means that run
\* fails, unless it is of the include line; and it goes away with a build, unless it is of
\* that line, or the section names a golden file: build writes another.
DoctorIsRight ==
  /\ said = "ok" /\ ran # "not yet" => ran = "started" \/ ~Has({"the lume VM"})
  /\ said = "FAIL" /\ ran # "not yet" /\ built # "not yet" =>
       \/ "failed" \in {ran, built}
       \/ raw.backend = "lume" /\ ~Has({"scp", "the firmware", "a known platform"})
  /\ said = "warn" /\ Has({"the include line"}) =>
       /\ ran # "started"
       /\ built = "done" => Golden = "the golden file"
=============================================================================
