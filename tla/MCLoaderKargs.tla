---------------------------- MODULE MCLoaderKargs ----------------------------
(***************************************************************************)
(* LoaderKargs on a disk with two entries, two runs at a time, and the     *)
(* environments that differ in what decides the way to the guest.          *)
(***************************************************************************)
EXTENDS LoaderKargs

Default ==
    [sandbox |-> FALSE, serial_kernel_log |-> TRUE, ssh_generator |-> TRUE,
     inject |-> "unset", direct |-> "unset", listen_credential |-> "unset",
     level |-> "quiet", kernel_cmdline |-> {"unset"}]

MCEnvs ==
    {Default,
     [Default EXCEPT !.level = "debug", !.listen_credential = "0"],
     [Default EXCEPT !.kernel_cmdline = {"console=ttyS0", "mitigations=off"}],
     [Default EXCEPT !.serial_kernel_log = FALSE, !.ssh_generator = FALSE],
     [Default EXCEPT !.direct = "1", !.inject = "0"],
     [Default EXCEPT !.sandbox = TRUE, !.inject = "1"]}

MCBase == [e \in {1, 2} |-> IF e = 1 THEN {"root", "quiet"} ELSE {"root", "old"}]
=============================================================================
