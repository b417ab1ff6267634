-------------------------- MODULE MCReportChannel --------------------------
EXTENDS ReportChannel

\* An empty datagram, a control command on the wrong port, something else
\* altogether, a report with an identifier that is too long, and one without a
\* vehicle.
Junk ==
  {[VehicleReport EXCEPT !.empty = TRUE],
   [VehicleReport EXCEPT !.body = [kind |-> "control", valid |-> TRUE]],
   [VehicleReport EXCEPT !.parses = FALSE],
   [VehicleReport EXCEPT !.body.state.vehicle_id.length = MaxIdLength + 1],
   [VehicleReport EXCEPT !.body.state.vehicle_id.length = 0]}
=============================================================================
