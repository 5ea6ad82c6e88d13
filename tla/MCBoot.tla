------------------------------- MODULE MCBoot -------------------------------
(***************************************************************************)
(* The stacks of the runs of Boot: CONFIG_ESP_MAIN_TASK_STACK_SIZE of      *)
(* sdkconfig.defaults and the arguments of xTaskCreate.                    *)
(***************************************************************************)
EXTENDS Boot

Stacks == [main |-> 4096, udp |-> 8192, monitor |-> 4096]
=============================================================================
