----------------------------- MODULE MCTransfers -----------------------------
(* Small instances of Transfers for TLC. *)
EXTENDS Transfers, TLC

(* The callers of the SPI driver *)

Job(fn_, wr, out, rd_, in, cont) ==
    [fn |-> fn_, wr |-> wr, out |-> out, rd |-> rd_, in |-> in, cont |-> cont]

MCSpiSessions ==
    \* The SPI PTA and the bus's loop: a byte, an exchange longer than both FIFOs,
    \* writes with and without room for the answers, a read, nothing.
    { <<Job("byte", TRUE, 1, TRUE, 1, FALSE)>>,
      <<Job("byte", TRUE, 1, FALSE, 0, FALSE)>>,
      <<Job("bytes", TRUE, 6, TRUE, 6, FALSE)>>,
      <<Job("bytes", TRUE, 3, TRUE, 3, TRUE)>>,
      <<Job("bytes", TRUE, 3, TRUE, 2, FALSE)>>,
      <<Job("bytes", TRUE, 2, FALSE, 0, FALSE)>>,
      <<Job("bytes", TRUE, 4, FALSE, 0, FALSE)>>,
      <<Job("bytes", TRUE, 0, FALSE, 0, FALSE)>>,
      <<Job("bytes", FALSE, 0, TRUE, 2, FALSE)>>,
    \* The flash driver: a page, an erase and a look at the status, the status,
    \* write enable and a write, an address and a read, an exchange on a register.
      <<Job("regs", TRUE, 1, FALSE, 0, FALSE), Job("bytes", TRUE, 1, FALSE, 0, TRUE)>>,
      <<Job("regs", TRUE, 1, FALSE, 0, FALSE), Job("regs", FALSE, 0, TRUE, 1, FALSE)>>,
      <<Job("regs", FALSE, 0, TRUE, 1, FALSE)>>,
      <<Job("regs", FALSE, 0, FALSE, 0, FALSE), Job("regs", TRUE, 1, FALSE, 0, FALSE)>>,
      <<Job("regs", TRUE, 1, FALSE, 0, FALSE), Job("bytes", FALSE, 0, TRUE, 1, FALSE)>>,
      <<Job("regs", TRUE, 2, TRUE, 2, FALSE)>> }

(* The callers of the I2C driver: transfers shorter and longer than the FIFO *)

I2cCalls == INSTANCE I2cTransfer WITH Sessions <- {}, MaxSessions <- 0
MCI2cSessions ==
    {I2cCalls!i2c_read_bytes(1), I2cCalls!i2c_read_bytes(5), I2cCalls!i2c_write_bytes(1),
     I2cCalls!i2c_write_bytes(5), I2cCalls!i2c_read_regs(2), I2cCalls!i2c_write_reg,
     I2cCalls!i2c_write_regs(3), I2cCalls!i2c_write_with_prefix(3), I2cCalls!at24cxx_read(3)}

=============================================================================
