----------------------------- MODULE MqttLibrary ------------------------------
(***************************************************************************)
(* modules/mqtt/mqtt_library_runtime.c: the reference count of the         *)
(* process-wide libmosquitto, as operators on a record of the count and of *)
(* whether mosquitto_lib_init is in effect.  Each call holds               *)
(* library_mutex throughout.                                               *)
(***************************************************************************)
EXTENDS Naturals

NoLibrary == [count |-> 0, initialised |-> FALSE]

\* The call succeeds; the first user initialises the library.
mqtt_library_acquire(l) == [count |-> l.count + 1, initialised |-> TRUE]

\* Mutant of mqtt_library_release: everybody cleans up.
release_always(l) ==
    IF l.count = 0 THEN l ELSE [count |-> l.count - 1, initialised |-> FALSE]

\* The last user cleans up.
mqtt_library_release(l) ==
    IF l.count = 0 THEN l
    ELSE [count |-> l.count - 1, initialised |-> l.initialised /\ l.count # 1]

\* A client whose creation fails: in mqtt_library_acquire, or on one of the
\* steps after it, which release what was acquired in reverse order.
FailedCreation(l) == {l, mqtt_library_release(mqtt_library_acquire(l))}
=============================================================================
