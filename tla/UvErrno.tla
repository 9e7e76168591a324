------------------------------ MODULE UvErrno ------------------------------
(***************************************************************************)
(* The error codes of libuv (usockets/include/uv/errno.h and uv.h), which  *)
(* every call of the event loop returns.  An error the platform defines    *)
(* has the negative of the platform's number; one it does not define has a *)
(* number of libuv's own, and on Windows all of them have.  The tables     *)
(* below hold libuv's own numbers, without their sign.                     *)
(***************************************************************************)
EXTENDS Integers

CONSTANT Errnos   \* numbers an errno.h may give an error, and 0

\* The numbers of the platforms are below libuv's own.
PlatformNumbers == 0 .. 2999

ASSUME ErrnosAssumption == Errnos \subseteq PlatformNumbers

\* Never taken from the platform: end of file, unknown, getaddrinfo.
FixedCodes ==
    [EOF |-> 4095, UNKNOWN |-> 4094, EAI_ADDRFAMILY |-> 3000,
     EAI_AGAIN |-> 3001, EAI_BADFLAGS |-> 3002, EAI_CANCELED |-> 3003,
     EAI_FAIL |-> 3004, EAI_FAMILY |-> 3005, EAI_MEMORY |-> 3006,
     EAI_NODATA |-> 3007, EAI_NONAME |-> 3008, EAI_OVERFLOW |-> 3009,
     EAI_SERVICE |-> 3010, EAI_SOCKTYPE |-> 3011, EAI_BADHINTS |-> 3013,
     EAI_PROTOCOL |-> 3014]

\* E2BIG ... EMFILE
FileAndSocketCodes ==
    [E2BIG |-> 4093, EACCES |-> 4092, EADDRINUSE |-> 4091,
     EADDRNOTAVAIL |-> 4090, EAFNOSUPPORT |-> 4089, EAGAIN |-> 4088,
     EALREADY |-> 4084, EBADF |-> 4083, EBUSY |-> 4082, ECANCELED |-> 4081,
     ECHARSET |-> 4080, ECONNABORTED |-> 4079, ECONNREFUSED |-> 4078,
     ECONNRESET |-> 4077, EDESTADDRREQ |-> 4076, EEXIST |-> 4075,
     EFAULT |-> 4074, EHOSTUNREACH |-> 4073, EINTR |-> 4072, EINVAL |-> 4071,
     EIO |-> 4070, EISCONN |-> 4069, EISDIR |-> 4068, ELOOP |-> 4067,
     EMFILE |-> 4066]

\* EMSGSIZE ... ESHUTDOWN
NetworkCodes ==
    [EMSGSIZE |-> 4065, ENAMETOOLONG |-> 4064, ENETDOWN |-> 4063,
     ENETUNREACH |-> 4062, ENFILE |-> 4061, ENOBUFS |-> 4060,
     ENODEV |-> 4059, ENOENT |-> 4058, ENOMEM |-> 4057, ENONET |-> 4056,
     ENOSPC |-> 4055, ENOSYS |-> 4054, ENOTCONN |-> 4053, ENOTDIR |-> 4052,
     ENOTEMPTY |-> 4051, ENOTSOCK |-> 4050, ENOTSUP |-> 4049, EPERM |-> 4048,
     EPIPE |-> 4047, EPROTO |-> 4046, EPROTONOSUPPORT |-> 4045,
     EPROTOTYPE |-> 4044, EROFS |-> 4043, ESHUTDOWN |-> 4042]

\* ESPIPE ... ENOEXEC; the defaults of EHOSTDOWN and ENODATA too.
LaterCodes ==
    [ESPIPE |-> 4041, ESRCH |-> 4040, ETIMEDOUT |-> 4039, ETXTBSY |-> 4038,
     EXDEV |-> 4037, EFBIG |-> 4036, ENOPROTOOPT |-> 4035, ERANGE |-> 4034,
     ENXIO |-> 4033, EMLINK |-> 4032, EHOSTDOWN |-> 4031, EREMOTEIO |-> 4030,
     ENOTTY |-> 4029, EFTYPE |-> 4028, EILSEQ |-> 4027, EOVERFLOW |-> 4026,
     ESOCKTNOSUPPORT |-> 4025, ENODATA |-> 4024, EUNATCH |-> 4023,
     ENOEXEC |-> 4022]

OwnCodes ==
    [e \in DOMAIN FileAndSocketCodes \cup DOMAIN NetworkCodes \cup DOMAIN LaterCodes |->
        IF e \in DOMAIN FileAndSocketCodes THEN FileAndSocketCodes[e]
        ELSE IF e \in DOMAIN NetworkCodes THEN NetworkCodes[e]
        ELSE LaterCodes[e]]

\* UV_ERRNO_MAP
ErrorNames == DOMAIN FixedCodes \cup DOMAIN OwnCodes

UvPlatforms == {"windows", "apple", "freebsd", "linux"}

\* EDOM is positive on these platforms, so the sign is changed.
UV__ERR(x) == -x

\* Mutant: Windows takes the numbers of its C library, as other platforms do.
UvCodeAnywhere(e, platform, errno) ==
    IF e \in DOMAIN FixedCodes THEN -FixedCodes[e]
    ELSE IF errno # 0 THEN UV__ERR(errno)
    ELSE -OwnCodes[e]

\* The code of e where the platform's errno.h defines e as errno, or does not
\* define it (0).  EHOSTDOWN and ENODATA are hard-coded where a BSD has them
\* and hides them.
UvCode(e, platform, errno) ==
    IF e \in DOMAIN FixedCodes THEN -FixedCodes[e]
    ELSE IF errno # 0 /\ platform # "windows" THEN UV__ERR(errno)
    ELSE IF e = "EHOSTDOWN" /\ platform \in {"apple", "freebsd"} THEN -64
    ELSE IF e = "ENODATA" /\ platform = "freebsd" THEN -9919
    ELSE -OwnCodes[e]

\* What the platforms promise: different errors have different numbers, and
\* 64 is EHOSTDOWN's on a BSD.  On Windows programs redefine the names as
\* they like (errno.h:50), so nothing is assumed there.
MayDefine(platform, e, x) ==
    platform \in {"apple", "freebsd"} /\ x = 64 => e = "EHOSTDOWN"

MayDefineBoth(platform, x, y) == platform # "windows" => x # y \/ x = 0
-----------------------------------------------------------------------------
\* The last call that failed: on which platform, with which error, and what
\* the platform's errno.h defines it as.
VARIABLE failure

NoFailure == [platform |-> "none", error |-> "none", errno |-> 0]

Fail(platform, e, x) ==
    /\ failure = NoFailure
    /\ MayDefine(platform, e, x)
    /\ failure' = [platform |-> platform, error |-> e, errno |-> x]

Handled ==
    /\ failure # NoFailure
    /\ failure' = NoFailure

UvInit == failure = NoFailure

UvNext == (\E p \in UvPlatforms, e \in ErrorNames, x \in Errnos : Fail(p, e, x)) \/ Handled

UvSpec == UvInit /\ [][UvNext]_failure

\* The code a failed call returns is no success and no other error of uv.h's
\* list has it, whatever errors the platform defines, hides or leaves to
\* libuv: a caller that compares a result with UV_EAGAIN means that error.
CodeIsUnique ==
    LET p == failure.platform
        e == failure.error
        x == failure.errno
    IN  failure # NoFailure =>
          /\ UvCode(e, p, x) < 0
          /\ \A f \in ErrorNames \ {e}, y \in Errnos :
                MayDefine(p, f, y) /\ MayDefineBoth(p, x, y) =>
                    UvCode(f, p, y) # UvCode(e, p, x)
=============================================================================
