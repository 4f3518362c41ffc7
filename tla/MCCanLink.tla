------------------------------- MODULE MCCanLink -------------------------------
(* Values of the constants of CanLink for TLC. *)
EXTENDS CanLink

\* Both ends of every signal, and values that do not fit it or its range.
Extremes ==
  [SetTargetGear    |-> {12, 17},             \* manual 8, no choice at all
   SetDriveMode     |-> {255},
   SetAccelPedal    |-> {-500, 4775, 12500},  \* -5 %, 47.75 %, 125 %
   SetTorqueRequest |-> {-32768},
   SetVehicleSpeed  |-> {8842, 70000},
   SetBrakePressed  |-> {1},
   SetVcuReady      |-> {1},
   SetActualTorque  |-> {-1, 32767},
   SetMotorRpm      |-> {-32768, 6000},
   SetTorqueCutAck  |-> {0, 1},
   SetStatus1Telemetry |->
     {[current_gear |-> 12, target_gear_echo |-> 11, tcu_state |-> 4,
       shift_in_progress |-> 1, tcu_ready |-> 0, any_fault |-> 1, park_lock |-> 0],
      [current_gear |-> 20, target_gear_echo |-> 35, tcu_state |-> 17,
       shift_in_progress |-> 0, tcu_ready |-> 1, any_fault |-> 0, park_lock |-> 1]},
   SetStatus1Sensors |->
     {[input_shaft_rpm |-> 65535, output_shaft_rpm |-> 1, oil_temp |-> -40,
       line_pressure |-> 255],
      [input_shaft_rpm |-> 256, output_shaft_rpm |-> 32768, oil_temp |-> 127,
       line_pressure |-> 3]},
   SetStatus2Telemetry |->
     {[fault_bits |-> 256, shift_count |-> 255, tcu_hw_temp |-> -1,
       sol_a_current |-> 65535, sol_b_current |-> 0],
      [fault_bits |-> 65535, shift_count |-> 1, tcu_hw_temp |-> 85,
       sol_a_current |-> 1, sol_b_current |-> 800]},
   SetShiftStatusTelemetry |->
     {[shift_phase |-> 4, torque_cut_request |-> 1, shift_active |-> 0,
       shift_fault_code |-> 1, shift_ramp_percent |-> 100, shift_elapsed_ms |-> 65535,
       current_clutch_set |-> 31, target_clutch_set |-> 1,
       ramping_in_clutch_set |-> 16, ramping_out_clutch_set |-> 0],
      [shift_phase |-> 9, torque_cut_request |-> 0, shift_active |-> 1,
       shift_fault_code |-> 6, shift_ramp_percent |-> 255, shift_elapsed_ms |-> 1,
       current_clutch_set |-> 32, target_clutch_set |-> 255,
       ramping_in_clutch_set |-> 0, ramping_out_clutch_set |-> 21]},
   SetPumpStatusTelemetry |->
     {[pump_state |-> 7, pump_run_ack |-> 0, pump_lin_fault |-> 1, pump_alt_fault |-> 0,
       pump_rpm |-> 65535, pump_voltage |-> 1, pump_current_raw |-> 128,
       pump_retry_count |-> 255],
      [pump_state |-> 8, pump_run_ack |-> 1, pump_lin_fault |-> 0, pump_alt_fault |-> 1,
       pump_rpm |-> 1200, pump_voltage |-> 144, pump_current_raw |-> 255,
       pump_retry_count |-> 0]}]
=================================================================================
