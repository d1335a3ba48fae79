---------------------------- MODULE MCDiagDevice ----------------------------
EXTENDS DiagDevice

\* A code in the first byte of a mask, in the second, in none of the type's
MCWanted == {<<0, 1>>, <<0, 8>>, <<1, 0>>, <<2, 2>>, <<2, 20>>}

\* Modems with masks of one to three bytes, full or not, with and without a log
\* type that has none, and with a mask that has no bit for a wanted code
MCSizes(s) == [t \in 0..2 |-> s[t + 1]]
MCModems == {MCSizes(s) : s \in {<<10, 0, 3>>, <<0, 8, 22>>, <<3, 9, 0>>, <<8, 1, 16>>}}

\* Devices that take a bare mode; a structure, without DIAG_IOCTL_REMOTE_DEV;
\* nothing at all; USB mode with one mask and memory mode with another
MCPlain   == [accepts |-> {Simple("memory")}, remote |-> TRUE]
MCLegacy  == [accepts |-> {V1None}, remote |-> FALSE]
MCNothing == [accepts |-> {}, remote |-> TRUE]
MCUsb     == [accepts |-> {With("V2", "USB", "all", 1), With("V2", "memory", "0xFF", 1)},
              remote |-> TRUE]
MCKernels == {MCPlain, MCLegacy, MCNothing, MCUsb}
=============================================================================
