----------------------------- MODULE MCS3c24xxI2c -----------------------------
(* The transfers of the runs of S3c24xxI2cCorrect. *)
EXTENDS S3c24xxI2cCorrect

M(fs, n) == [flags |-> fs, len |-> n]

MCTransfers == {
  <<M({}, 0)>>,                                      \* i2cdetect: probe an address
  <<M({}, 2)>>,
  <<M({"RD"}, 0)>>,
  <<M({"RD"}, 2)>>,
  <<M({"RD", "RECV_LEN"}, 1)>>,                      \* smbus block read
  <<M({}, 1), M({"RD"}, 2)>>,                        \* a register read
  <<M({}, 0), M({"RD", "IGNORE_NAK"}, 1)>>,
  <<M({"IGNORE_NAK"}, 1), M({}, 1)>>,
  <<M({}, 1), M({"NOSTART"}, 1)>>,
  <<M({}, 1), M({"NOSTART"}, 0)>>,
  <<M({}, 1), M({"NOSTART"}, 0), M({"NOSTART"}, 1)>>,
  <<M({}, 1), M({"NOSTART"}, 0), M({"RD"}, 1)>> }
===============================================================================
