----------------------------- MODULE SubDevices -----------------------------
(***************************************************************************)
(* Device partitioning and device lifetime: CPUDevice::createSubDevices   *)
(* (src/src/core/cpu/device.cpp) reached through clCreateSubDevices, and   *)
(* clRetainDevice / clReleaseDevice (src/src/api/api_device.cpp).          *)
(* Object::reference / dereference are not among the sources; they follow *)
(* the spec: a reference count that starts at 1, and the object is        *)
(* deleted when dereference brings it to 0.                                *)
(*                                                                         *)
(* A call's inputs are abstracted to the shape of the properties list     *)
(* (NULL, CL_DEVICE_PARTITION_EQUALLY or another kind), the count in      *)
(* properties[1], whether properties[2] is the terminating 0, whether     *)
(* out_devices is NULL and its capacity num_devices. partition_size is   *)
(* read uninitialized when the list is not an EQUALLY one: it is then any  *)
(* value, of which only whether it is 0 matters.                          *)
(***************************************************************************)
EXTENDS Integers, FiniteSetsExt, Sequences

CONSTANTS
    DevSeq,      \* the device objects in order of creation, the root first;
                 \* its length bounds how many devices are ever made
    NoDevice,    \* p_parent_device of a root device
    OtherObject, \* a handle to an object that is not a device
    RootCores,   \* sysconf(_SC_NPROCESSORS_ONLN)
    Counts,      \* values tried in properties[1]
    Capacities,  \* values tried for num_devices
    MaxRefs,     \* bound on a device's reference count
    MAX_PARTITION_PROPS, \* entries of a partition list (CL header)
    InfoSizes,   \* values tried for clGetDeviceInfo's param_value_size
    PTR_SIZE,    \* sizeof(void *), size_t and intptr_t on the host
    MAX_WORK_DIMS, \* work-item dimensions (CL header)
    STRING_LEN   \* strlen + 1 of a non-empty string answer

Devs == {DevSeq[i] : i \in DOMAIN DevSeq}
Root == DevSeq[1]

ASSUME /\ NoDevice \notin Devs /\ OtherObject \notin Devs
       /\ RootCores \in Nat \ {0}
       /\ Counts \subseteq Nat /\ Capacities \subseteq Nat

Kinds == {"NULL", "EQUALLY", "BY_COUNTS"}
Statuses == {"SUCCESS", "INVALID_VALUE", "PARTITION_FAILED", "INVALID_DEVICE"}

(* The queries CPUDevice::info answers (lines 440-782). Those whose      *)
(* answer is fixed by the build are grouped by the C type of their value,  *)
(* and stand for every case of that type: "cl_uint" also for cl_bool and   *)
(* the enumerations, "cl_ulong" also for the bitfields, "string" for a     *)
(* STRING_ASSIGN or the CPU name, "empty_string" for "" (built-in kernels, *)
(* or a name /proc/cpuinfo does not give). Those that depend on the device *)
(* are named.                                                              *)
FixedParams == {"cl_uint", "cl_ulong", "size_t", "cl_platform_id",
                "work_item_sizes", "partition_properties", "string",
                "empty_string"}
DeviceParams == {"MAX_COMPUTE_UNITS", "PARENT_DEVICE",
                 "PARTITION_MAX_SUB_DEVICES", "PARTITION_TYPE",
                 "REFERENCE_COUNT"}
Params == FixedParams \cup DeviceParams
Unsupported == "unsupported"   \* any other param_name: the default case

SIZEOF_UINT == 4
SIZEOF_ULONG == 8
SIZEOF_PARTITION_PROPS == PTR_SIZE * MAX_PARTITION_PROPS

(* A partition list as setProperties keeps it: its kind, count and       *)
(* whether properties[2] terminates it.                                   *)
NoProps == [kind |-> "none", count |-> 0, term |-> TRUE]

(* An output parameter the call leaves as it was.                         *)
NotWritten == -1

VARIABLES
    alive,    \* devices that exist
    used,     \* devices ever created (objects are not reused)
    cores,    \* p_cores
    parent,   \* p_parent_device
    refs,     \* reference count
    ret,      \* the last createSubDevices call: its device, partition_size,
              \* out_devices and num_devices, status and the devices made
    props     \* p_partition_properties: the list a sub-device was made from

vars == <<alive, used, cores, parent, refs, ret, props>>

NoCall == [dev |-> NoDevice, size |-> 0, out |-> FALSE, capacity |-> 0,
           status |-> "INVALID_VALUE", created |-> {}, numRet |-> NotWritten]

Init ==
    /\ alive = {Root}
    /\ used = {Root}
    /\ cores = [d \in Devs |-> IF d = Root THEN RootCores ELSE 0]
    /\ parent = [d \in Devs |-> NoDevice]
    /\ refs = [d \in Devs |-> IF d = Root THEN 1 ELSE 0]
    /\ ret = NoCall
    /\ props = [d \in Devs |-> NoProps]

-----------------------------------------------------------------------------
(* The validation of an EQUALLY list (lines 343-355): the status it sets  *)
(* and the number of devices it computes.                                  *)
Validate(n, count, term) ==
    IF ~term THEN "INVALID_VALUE"
    ELSE IF n = 1 THEN "PARTITION_FAILED"
    ELSE IF count > 0 /\ count <= n THEN "SUCCESS"
    ELSE "INVALID_VALUE"

NumNewDevicesCeil(n, count, term) ==
    IF Validate(n, count, term) = "SUCCESS" THEN (n + count - 1) \div count
    ELSE 0

NumNewDevices(n, count, term) ==
    IF Validate(n, count, term) = "SUCCESS" THEN n \div count ELSE 0

(* setProperties: a sub-device keeps the list it was made from.          *)
SetProperties(kind, count, term) == [kind |-> kind, count |-> count, term |-> term]

(* partition_size (line 334) is only set for an EQUALLY list; for any   *)
(* other it is uninitialized, 0 or not.                                    *)
PartitionSizes(kind, count) == IF kind = "EQUALLY" THEN {count} ELSE {0, 1}

TooFewOrEqual(capacity, num_new) == capacity <= num_new

(* The capacity check of line 370.                                        *)
TooFew(capacity, num_new) == capacity < num_new

(* What one createSubDevices call returns: an EQUALLY list is validated,  *)
(* any other list, or none, is CL_INVALID_VALUE; when out_devices is given *)
(* on success, too small a num_devices turns the status into              *)
(* CL_INVALID_VALUE. The creation does not look at the status: whenever    *)
(* partition_size is non-zero, num_new_devices devices are made (if       *)
(* out_devices is given) and *num_devices_ret is set to num_new_devices.   *)
Outcome(d, kind, count, term, out, capacity, psize) ==
    LET n == cores[d]
        num_new == IF kind = "EQUALLY" THEN NumNewDevices(n, count, term)
                   ELSE 0
        retval0 == IF kind = "EQUALLY" THEN Validate(n, count, term)
                   ELSE "INVALID_VALUE"
    IN [status |-> IF retval0 = "SUCCESS" /\ out /\ TooFew(capacity, num_new)
                   THEN "INVALID_VALUE" ELSE retval0,
        made   |-> IF psize # 0 /\ out THEN num_new ELSE 0,
        numRet |-> IF psize # 0 THEN num_new ELSE NotWritten]

PropsAfterOnParent(d, new, kind, count, term) ==
    [e \in Devs |-> IF e \in new \cup {d}
                    THEN SetProperties(kind, count, term) ELSE props[e]]

(* The loop of lines 377-381: each new device keeps the caller's list.    *)
PropsAfter(d, new, kind, count, term) ==
    [e \in Devs |-> IF e \in new THEN SetProperties(kind, count, term)
                    ELSE props[e]]

(* createSubDevices: the made sub-devices get partition_size cores, the  *)
(* device as parent, one reference and the list (setProperties).          *)
CreateSubDevices(d, kind, count, term, out, capacity) ==
    \E psize \in PartitionSizes(kind, count) :
    LET o == Outcome(d, kind, count, term, out, capacity, psize)
        first == Cardinality(used)
        new == {DevSeq[first + i] : i \in 1..o.made}
    IN
    /\ d \in alive
    /\ first + o.made <= Len(DevSeq)
    /\ alive' = alive \cup new
    /\ used' = used \cup new
    /\ cores' = [e \in Devs |-> IF e \in new THEN psize ELSE cores[e]]
    /\ parent' = [e \in Devs |-> IF e \in new THEN d ELSE parent[e]]
    /\ refs' = [e \in Devs |-> IF e \in new THEN 1 ELSE refs[e]]
    /\ props' = PropsAfter(d, new, kind, count, term)
    /\ ret' = [dev |-> d, size |-> psize, out |-> out, capacity |-> capacity,
               status |-> o.status, created |-> new, numRet |-> o.numRet]

(* clCreateSubDevices: a handle whose object is not a device is          *)
(* CL_INVALID_DEVICE; a device forwards the call.                          *)
ClCreateSubDevices(h, kind, count, term, out, capacity) ==
    IF h = OtherObject
    THEN /\ ret' = [NoCall EXCEPT !.status = "INVALID_DEVICE"]
         /\ UNCHANGED <<alive, used, cores, parent, refs, props>>
    ELSE CreateSubDevices(h, kind, count, term, out, capacity)

(* clRetainDevice: reference().                                            *)
RetainDevice(d) ==
    /\ d \in alive
    /\ refs[d] < MaxRefs
    /\ refs' = [refs EXCEPT ![d] = @ + 1]
    /\ UNCHANGED <<alive, used, cores, parent, ret, props>>

ReleaseDeviceEarly(d) ==
    /\ d \in alive
    /\ refs' = [refs EXCEPT ![d] = @ - 1]
    /\ alive' = IF refs[d] <= 2 THEN alive \ {d} ELSE alive
    /\ UNCHANGED <<used, cores, parent, ret, props>>

(* clReleaseDevice: delete the device when dereference() drops the count  *)
(* to zero. A sub-device holds no reference on its parent.                 *)
ReleaseDevice(d) ==
    /\ d \in alive
    /\ refs' = [refs EXCEPT ![d] = @ - 1]
    /\ alive' = IF refs[d] = 1 THEN alive \ {d} ELSE alive
    /\ UNCHANGED <<used, cores, parent, ret, props>>

MaxSubDevicesNoSingleCore(d) == cores[d]

(* CL_DEVICE_PARTITION_MAX_SUB_DEVICES: none for a one-core device, else  *)
(* one per core.                                                           *)
MaxSubDevices(d) == IF cores[d] = 1 THEN 0 ELSE cores[d]

(* What CPUDevice::info answers for a query: a fixed answer is the      *)
(* constant of its query; the first of the partition properties is         *)
(* CL_DEVICE_PARTITION_EQUALLY and the others are not set (not modelled).  *)
InfoValue(d, param) ==
    CASE param = "MAX_COMPUTE_UNITS" -> cores[d]
      [] param = "PARENT_DEVICE" -> parent[d]
      [] param = "PARTITION_MAX_SUB_DEVICES" -> MaxSubDevices(d)
      [] param = "PARTITION_TYPE" -> props[d]
      [] param = "REFERENCE_COUNT" -> refs[d]
      [] OTHER -> param

(* value_length: the sizeof of SIMPLE_ASSIGN's type, strlen + 1 of a      *)
(* string, MAX_WORK_DIMS size_t values, MAX_PARTITION_PROPS entries of a   *)
(* list, and nothing for the partition type of a root device.             *)
InfoLength(d, param) ==
    CASE param \in {"cl_uint", "MAX_COMPUTE_UNITS", "PARTITION_MAX_SUB_DEVICES",
                    "REFERENCE_COUNT"} -> SIZEOF_UINT
      [] param = "cl_ulong" -> SIZEOF_ULONG
      [] param \in {"size_t", "cl_platform_id", "PARENT_DEVICE"} -> PTR_SIZE
      [] param = "work_item_sizes" -> MAX_WORK_DIMS * PTR_SIZE
      [] param = "partition_properties" -> SIZEOF_PARTITION_PROPS
      [] param = "PARTITION_TYPE" ->
            IF parent[d] = NoDevice THEN 0 ELSE SIZEOF_PARTITION_PROPS
      [] param = "string" -> STRING_LEN
      [] param = "empty_string" -> 1

Refused == [status |-> "INVALID_VALUE", written |-> FALSE, value |-> 0,
            sizeRet |-> NotWritten]

GetDeviceInfoBufferCheckLE(d, param, buf, size) ==
    LET len == InfoLength(d, param) IN
    IF param \notin Params \/ (buf /\ size <= len) THEN Refused
    ELSE [status |-> "SUCCESS", written |-> buf /\ len > 0,
          value |-> IF buf /\ len > 0 THEN InfoValue(d, param) ELSE 0,
          sizeRet |-> len]

(* clGetDeviceInfo on a live device handle, a query that changes no     *)
(* state: a query outside the switch, or a buffer smaller than the value,  *)
(* is CL_INVALID_VALUE with nothing written; otherwise the buffer, when    *)
(* given, gets the value and param_value_size_ret (sizeRet) gets           *)
(* value_length. buf is whether param_value is given, size its            *)
(* param_value_size.                                                       *)
GetDeviceInfo(d, param, buf, size) ==
    LET len == InfoLength(d, param) IN
    IF param \notin Params \/ (buf /\ size < len) THEN Refused
    ELSE [status |-> "SUCCESS", written |-> buf /\ len > 0,
          value |-> IF buf /\ len > 0 THEN InfoValue(d, param) ELSE 0,
          sizeRet |-> len]

(* clGetDeviceInfo: the same check of the handle, then CPUDevice::info.  *)
ClGetDeviceInfo(h, param, buf, size) ==
    IF h = OtherObject THEN [Refused EXCEPT !.status = "INVALID_DEVICE"]
    ELSE GetDeviceInfo(h, param, buf, size)

(* The lists a caller passes: only an EQUALLY list has its count and     *)
(* terminator read, so the others are tried once each.                    *)
Requests == [kind : {"EQUALLY"}, count : Counts, term : BOOLEAN]
            \cup [kind : {"NULL", "BY_COUNTS"}, count : {0}, term : {TRUE}]

Next ==
    \/ \E h \in Devs \cup {OtherObject}, rq \in Requests, out \in BOOLEAN,
          capacity \in Capacities :
          ClCreateSubDevices(h, rq.kind, rq.count, rq.term, out, capacity)
    \/ \E d \in Devs : RetainDevice(d) \/ ReleaseDevice(d)

Spec == Init /\ [][Next]_vars

-----------------------------------------------------------------------------
(* Types; a device exists exactly while its reference count is positive. *)
TypeOK ==
    /\ alive \subseteq used /\ used \subseteq Devs
    /\ \A d \in used : d \in alive <=> refs[d] > 0
    /\ cores \in [Devs -> Nat]
    /\ parent \in [Devs -> Devs \cup {NoDevice}]
    /\ refs \in [Devs -> 0..MaxRefs]
    /\ ret.status \in Statuses /\ ret.created \subseteq Devs
    /\ ret.numRet \in Nat \cup {NotWritten}
    /\ props \in [Devs -> [kind : Kinds \cup {"none"}, count : Nat, term : BOOLEAN]]

(* Equal partitioning (spec 8.6): a request for c cores on an n-core      *)
(* device makes floor(n / c) sub-devices of c cores each, children of that *)
(* device, never more cores than it has; a count of 0 or above n, or a     *)
(* 1-core device, makes none.                                              *)
PartitionArithmetic ==
    LET n == cores[ret.dev]
        c == ret.size
        k == Cardinality(ret.created)
    IN ret.created # {} =>
         /\ n > 1 /\ 0 < c /\ c <= n
         /\ k * c <= n /\ n < (k + 1) * c
         /\ \A e \in ret.created : cores[e] = c /\ parent[e] = ret.dev

(* No more sub-devices are written to out_devices than num_devices says   *)
(* it can hold.                                                            *)
OutDevicesInBounds ==
    ret.out => Cardinality(ret.created) <= ret.capacity

(* What CL_DEVICE_PARTITION_MAX_SUB_DEVICES reports for a device is the   *)
(* most sub-devices one CL_DEVICE_PARTITION_EQUALLY request of           *)
(* createSubDevices can make of it, for devices of any depth of the       *)
(* partition tree: a client sizing out_devices by it is never short, and  *)
(* never told to expect devices that no request makes.                   *)
MaxSubDevicesExact ==
    \A d \in alive, size \in InfoSizes :
        LET answer == GetDeviceInfo(d, "PARTITION_MAX_SUB_DEVICES", TRUE, size)
        IN  answer.status = "SUCCESS" =>
                answer.value = Max({NumNewDevices(cores[d], c, TRUE) :
                                       c \in 0..cores[d]})

(* The size query of clGetDeviceInfo (spec section 5): for every query of *)
(* the switch, a call with no buffer succeeds and reports value_length in  *)
(* param_value_size_ret; a buffer of exactly that size then succeeds and   *)
(* receives the value, one byte less is refused with nothing written; a    *)
(* query outside the switch is refused without a size.                    *)
SizeQueryProtocol ==
    \A d \in alive :
      /\ ClGetDeviceInfo(d, Unsupported, FALSE, 0) = Refused
      /\ \A p \in Params :
           LET q == ClGetDeviceInfo(d, p, FALSE, 0)
               f == ClGetDeviceInfo(d, p, TRUE, q.sizeRet)
           IN /\ q.status = "SUCCESS" /\ ~q.written
              /\ f.status = "SUCCESS" /\ f.sizeRet = q.sizeRet
              /\ f.written <=> q.sizeRet > 0
              /\ q.sizeRet > 0 =>
                   ClGetDeviceInfo(d, p, TRUE, q.sizeRet - 1) = Refused

(* The count query of clCreateSubDevices: a request without out_devices   *)
(* that succeeds reports in *num_devices_ret how many devices it makes,    *)
(* and the same request with out_devices of exactly that capacity then     *)
(* succeeds and makes that many; a request that fails never reports a      *)
(* positive count, whatever the uninitialized partition_size holds.        *)
CountQueryProtocol ==
    \A d \in alive, rq \in Requests :
      \A psize \in PartitionSizes(rq.kind, rq.count) :
        LET q == Outcome(d, rq.kind, rq.count, rq.term, FALSE, 0, psize) IN
        IF q.status = "SUCCESS"
        THEN LET f == Outcome(d, rq.kind, rq.count, rq.term, TRUE, q.numRet, psize)
             IN q.numRet > 0 /\ f.status = "SUCCESS" /\ f.made = q.numRet
        ELSE q.numRet \in {0, NotWritten}

(* A device's compute units, parent and partition type are written once  *)
(* at construction (spec section 6): while a device lives, no call of any *)
(* client, on it or on another device, changes what clGetDeviceInfo       *)
(* answers for them or for the number of sub-devices it can be split into. *)
InfoImmutable ==
    [][\A d \in alive \cap alive',
        p \in {"MAX_COMPUTE_UNITS", "PARENT_DEVICE", "PARTITION_TYPE",
              "PARTITION_MAX_SUB_DEVICES"} :
          LET answer == GetDeviceInfo(d, p, TRUE, SIZEOF_PARTITION_PROPS)
          IN answer' = answer]_vars
=============================================================================
