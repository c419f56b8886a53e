--------------------------- MODULE S3c24xxI2cClaims ---------------------------
(***************************************************************************)
(* A claim that a comment of src/i2c/bus_drv/i2c-s3c2440.c makes and that  *)
(* the code does not keep.                                                 *)
(***************************************************************************)
EXTENDS S3c24xxI2c

M(fs, n) == [flags |-> fs, len |-> n]

(* Two writes. *)
WriteWrite == {<<M({}, 1), M({}, 1)>>}

(* Lines 573-575: s3c24xx_i2c_disable_bus disables the bus "so that we won't
   get any interrupts from now on, or try to drive any llines.  This is the
   default state when we don't have anything to send/receive". *)
DisabledWhenIdle == pc = "idle" => "IRQEN" \notin con /\ "TXRXEN" \notin stat
===============================================================================
