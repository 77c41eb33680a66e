---------------------------- MODULE SerialHandler ---------------------------
(***************************************************************************)
(* kvmd_serial_term/serial_handler.py: the serial port as the daemon holds *)
(* it.  open(), write() and close() never suspend here: pyserial opens the *)
(* device synchronously and a keystroke does not fill the write buffer.    *)
(***************************************************************************)
EXTENDS Target

CONSTANT Faults     \* TRUE: the adapter may be unplugged, open() may fail

ASSUME FaultsAssumption == Faults \in BOOLEAN

VARIABLES
    port,           \* "closed" (_writer is None), "open", or "broken": still
                    \* held, but the adapter is gone
    leaked          \* open() has replaced a connection that was never closed

portVars == <<port, leaked>>

SerialInit == port = "closed" /\ leaked = FALSE

is_open == port # "closed"

\* open(): _reader and _writer are overwritten, whatever they held.
Opens ==
    /\ port' = "open"
    /\ leaked' = (leaked \/ port = "open")
    /\ UNCHANGED targetVars

\* open() raises SerialError.
OpenRaises == Faults /\ UNCHANGED <<portVars, targetVars>>

\* close(): what the reader had buffered is lost with it.
Closes ==
    /\ port' = "closed"
    /\ output' = IF output = "buffered" THEN "none" ELSE output
    /\ UNCHANGED <<leaked, shell>>

\* write() succeeds: the caller says what the target makes of it.
Writes(reaction) ==
    /\ port = "open"
    /\ reaction
    /\ UNCHANGED portVars

\* write() raises: no writer, or drain() reports the lost connection.
WriteRaises ==
    /\ port # "open"
    /\ UNCHANGED <<portVars, targetVars>>

\* read() returns data.
Reads ==
    /\ port = "open"
    /\ output = "buffered"
    /\ output' = "none"
    /\ UNCHANGED <<portVars, shell>>

\* The target prints.  Bytes reach the daemon only while it holds the port; a
\* connection that was replaced without being closed may take them instead.
Prints ==
    /\ output = "printing"
    /\ \/ port = "open" /\ output' = "buffered"
       \/ (port # "open" \/ leaked) /\ output' = "none"
    /\ UNCHANGED <<portVars, shell>>

\* The adapter is pulled out.
Unplug ==
    /\ Faults
    /\ port = "open"
    /\ port' = "broken"
    /\ output' = "none"
    /\ UNCHANGED <<leaked, shell>>
=============================================================================
