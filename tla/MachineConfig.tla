---------------------------- MODULE MachineConfig ----------------------------
(***************************************************************************)
(* The machine of a uefi_test, apart from its media and forwards, as three *)
(* places of the repository judge it: the macro when the target is loaded  *)
(* (defs.bzl), UefiQemuConfig.from_namespace when the test starts, and     *)
(* UefiQemuConfig.command when QEMU's command line is made (qemu.py).      *)
(* Labels are given or not, numbers keep their value, a string is good or  *)
(* not, the label of the firmware directory names a file or something else *)
(* (a directory).  initrd and kernel_args always count together            *)
(* (kernelInput).                                                          *)
(***************************************************************************)
EXTENDS Integers

Architectures == {"x86_64", "aarch64"}

Machine ==
    [arch : STRING, boot : STRING, firmware : BOOLEAN, kernel : BOOLEAN, kernelInput : BOOLEAN,
     memory : Int, cpus : Int, gic : {"default", "2", "3"}, badOption : BOOLEAN,
     cpuModel : {"none", "good", "bad"}, graphics : BOOLEAN,
     graphicsDevice : {"none", "empty", "named"}, firmwareDir : {"none", "file", "other"}, dashL : BOOLEAN,
     debugcon : BOOLEAN, requireKvm : BOOLEAN, skip : BOOLEAN]

(***************************************************************************)
(* When the target is loaded.                                              *)
(***************************************************************************)
ValidateBoot(m) ==
    \/ m.boot = "uefi" /\ m.firmware /\ ~m.kernel /\ ~m.kernelInput
    \/ m.boot = "direct-kernel" /\ m.kernel

LoadsMachine(m, hasVars) ==
    /\ m.arch \in Architectures
    /\ m.memory > 0 /\ m.cpus > 0
    /\ m.skip => m.requireKvm
    /\ hasVars => m.firmware
    /\ m.graphicsDevice # "none" => m.graphics
    /\ m.cpuModel # "bad"
    /\ ValidateBoot(m)
    /\ ~(m.firmwareDir # "none" /\ m.dashL)
    /\ ~m.badOption

(***************************************************************************)
(* When the test starts: before the media, after them, and in command().   *)
(***************************************************************************)
ConfiguresMachine(m, hasVars) ==
    /\ m.arch \in Architectures
    /\ m.memory > 0 /\ m.cpus > 0
    /\ ~m.badOption
    /\ m.boot \in {"uefi", "direct-kernel"}
    /\ IF m.boot = "uefi" THEN m.firmware /\ ~(m.kernel \/ m.kernelInput) ELSE m.kernel
    /\ hasVars => m.firmware
    /\ m.firmwareDir # "other"
    /\ m.cpuModel # "bad"
    /\ m.graphicsDevice # "none" => m.graphicsDevice # "empty" /\ m.graphics
    /\ ~(m.firmwareDir # "none" /\ m.dashL)

DebugconFits(m) == m.debugcon => m.arch = "x86_64"

\* A directly booted AArch64 kernel gets GICv2 unless the test asks for another.
GicVersion(m) ==
    IF m.arch = "aarch64" /\ m.boot = "direct-kernel" /\ m.gic = "default" THEN "2" ELSE m.gic

CommandFits(m) == ~(m.arch = "aarch64" /\ m.cpus > 8 /\ GicVersion(m) = "2")

(***************************************************************************)
(* probe_linux_kvm, on a host whose /dev/kvm may work up to any point.     *)
(* The descriptors it opens are closed on every path.                      *)
(***************************************************************************)
Host ==
    [linux : BOOLEAN, arch : Architectures \cup {"other"}, fcntl : BOOLEAN, opens : BOOLEAN,
     apiVersion : {"fails", "other", "expected"}, createVm : {"fails", "invalid", "created"}]

ProbeLinuxKvm(guest, host) ==
    /\ host.linux
    /\ host.arch \in Architectures /\ host.arch = guest
    /\ host.fcntl /\ host.opens
    /\ host.apiVersion = "expected"
    /\ host.createVm = "created"
=============================================================================
