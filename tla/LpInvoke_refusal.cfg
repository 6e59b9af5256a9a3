\* The documented completion of invokeAsync, against a refusing C ABI.
CONSTANT Calls = {k1}
SPECIFICATION Spec
CHECK_DEADLOCK FALSE
INVARIANT InvokeAsyncFiresOnce
